---- MODULE Spec2Model ----
(***************************************************************************)
(* The ETL pipeline of src/v1/ETL_pipeline.py (DataValidator, DataCleaner, *)
(* MetricsCalculator, main) and the standalone cleaning script of          *)
(* src/Class_data_clean.py, as one state machine over the CSV files they   *)
(* read.                                                                   *)
(*                                                                         *)
(* Text is a sequence of one-character strings, so that trimming, regular  *)
(* expression substitution, UUID parsing and number parsing are computed   *)
(* character by character as the Python code computes them.                *)
(***************************************************************************)
EXTENDS Integers, Sequences, FiniteSets, TLC

----------------------------------------------------------------------------
(* Characters *)

Digits == {"0", "1", "2", "3", "4", "5", "6", "7", "8", "9"}

DigitSeq == <<"0", "1", "2", "3", "4", "5", "6", "7", "8", "9">>

LowerSeq == <<"a", "b", "c", "d", "e", "f", "g", "h", "i", "j", "k", "l", "m",
              "n", "o", "p", "q", "r", "s", "t", "u", "v", "w", "x", "y", "z">>

UpperSeq == <<"A", "B", "C", "D", "E", "F", "G", "H", "I", "J", "K", "L", "M",
              "N", "O", "P", "Q", "R", "S", "T", "U", "V", "W", "X", "Y", "Z">>

Lowers == {LowerSeq[i] : i \in DOMAIN LowerSeq}

Uppers == {UpperSeq[i] : i \in DOMAIN UpperSeq}

Alnum == Digits \cup Lowers \cup Uppers

HexChars == Digits \cup {"a", "b", "c", "d", "e", "f", "A", "B", "C", "D", "E", "F"}

\* Python's str.strip() whitespace and the regex class \s, on ASCII text.
Whitespace == {" ", "\t", "\n", "\r"}

\* The other printable characters, in ASCII order between the classes above
\* (the double quote, the backslash and the backtick stand as names: no text
\* of the model holds them).
Punct1 == <<" ", "!", "dquote", "#", "$", "%", "&", "'", "(", ")", "*", "+", ",", "-", ".", "/">>

Punct2 == <<":", ";", "<", "=", ">", "?", "@">>

Punct3 == <<"[", "backslash", "]", "^", "_", "backtick">>

Punct4 == <<"{", "|", "}", "~">>

\* Printable ASCII in code-point order (code point = index + 31).
Ascii == Punct1 \o DigitSeq \o Punct2 \o UpperSeq \o Punct3 \o LowerSeq \o Punct4

IndexIn(c, seq) == CHOOSE i \in DOMAIN seq : seq[i] = c

\* ord(c); control characters (tab, newline) sort before every printable one.
Ord(c) == IF \E i \in DOMAIN Ascii : Ascii[i] = c THEN IndexIn(c, Ascii) + 31 ELSE 9

DigitVal(c) == IndexIn(c, DigitSeq) - 1

LowerChar(c) == IF c \in Uppers THEN LowerSeq[IndexIn(c, UpperSeq)] ELSE c

----------------------------------------------------------------------------
(* Text operations *)

\* str.lower()
Lower(s) == [i \in DOMAIN s |-> LowerChar(s[i])]

\* The characters of s that satisfy keep, in order (re.sub of a one-character
\* class by the empty text).
RECURSIVE KeepChars(_, _)
KeepChars(s, keep) ==
    IF s = <<>> THEN <<>>
    ELSE (IF Head(s) \in keep THEN <<Head(s)>> ELSE <<>>) \o KeepChars(Tail(s), keep)

RECURSIVE DropChars(_, _)
DropChars(s, drop) ==
    IF s = <<>> THEN <<>>
    ELSE (IF Head(s) \in drop THEN <<>> ELSE <<Head(s)>>) \o DropChars(Tail(s), drop)

RECURSIVE LStrip(_, _)
LStrip(s, cs) == IF s # <<>> /\ Head(s) \in cs THEN LStrip(Tail(s), cs) ELSE s

RECURSIVE RStrip(_, _)
RStrip(s, cs) ==
    IF s # <<>> /\ s[Len(s)] \in cs THEN RStrip(SubSeq(s, 1, Len(s) - 1), cs) ELSE s

\* str.strip(cs)
StripChars(s, cs) == RStrip(LStrip(s, cs), cs)

\* str.strip()
Strip(s) == StripChars(s, Whitespace)

StartsWith(s, p) == Len(s) >= Len(p) /\ SubSeq(s, 1, Len(p)) = p

\* str.replace(old, empty): every non-overlapping occurrence, left to right.
RECURSIVE RemoveAll(_, _)
RemoveAll(s, old) ==
    IF s = <<>> THEN <<>>
    ELSE IF StartsWith(s, old) THEN RemoveAll(SubSeq(s, Len(old) + 1, Len(s)), old)
    ELSE <<Head(s)>> \o RemoveAll(Tail(s), old)

Contains(s, p) == \E i \in 1..(Len(s) - Len(p) + 1) : SubSeq(s, i, i + Len(p) - 1) = p

\* Lexicographic order of text by code point (Python's str <).
RECURSIVE TextLess(_, _)
TextLess(a, b) ==
    IF b = <<>> THEN FALSE
    ELSE IF a = <<>> THEN TRUE
    ELSE IF Head(a) = Head(b) THEN TextLess(Tail(a), Tail(b))
    ELSE Ord(Head(a)) < Ord(Head(b))

Rep(c, n) == [i \in 1..n |-> c]

AllIn(s, cs) == \A i \in DOMAIN s : s[i] \in cs

----------------------------------------------------------------------------
(* Values of a pandas cell: text, an int64, a float64, or NaN (a missing     *)
(* value).  Numbers are exact decimals counted in hundredths.                *)

Str(s) == [t |-> "str", s |-> s, n |-> 0]

Int64(n) == [t |-> "int", s |-> <<>>, n |-> n]

Float64(n) == [t |-> "float", s |-> <<>>, n |-> n]

NaN == [t |-> "nan", s |-> <<>>, n |-> 0]

IsStr(v) == v.t = "str"

IsNum(v) == v.t \in {"int", "float"}

RECURSIVE NatText(_)
NatText(k) ==
    IF k < 10 THEN <<DigitSeq[k + 1]>> ELSE NatText(k \div 10) \o <<DigitSeq[(k % 10) + 1]>>

\* repr of the fraction of a float counted in hundredths: "0", "5", "25", "05".
FracText(h) ==
    IF h % 10 = 0 THEN <<DigitSeq[(h \div 10) + 1]>>
    ELSE <<DigitSeq[(h \div 10) + 1], DigitSeq[(h % 10) + 1]>>

Abs(n) == IF n < 0 THEN -n ELSE n

\* Python's str(v): text as it is, an int as its digits, a float with its
\* fraction ("5.0", "12.5"), NaN as "nan".
StrOf(v) ==
    CASE v.t = "str" -> v.s
      [] v.t = "nan" -> <<"n", "a", "n">>
      [] v.t = "int" -> (IF v.n < 0 THEN <<"-">> ELSE <<>>) \o NatText(Abs(v.n) \div 100)
      [] v.t = "float" -> (IF v.n < 0 THEN <<"-">> ELSE <<>>) \o NatText(Abs(v.n) \div 100)
                          \o <<".">> \o FracText(Abs(v.n) % 100)

----------------------------------------------------------------------------
(* Decimal text *)

Unsigned(s) == IF s # <<>> /\ s[1] \in {"+", "-"} THEN Tail(s) ELSE s

DotAt(s) == IF \E i \in DOMAIN s : s[i] = "." THEN CHOOSE i \in DOMAIN s : s[i] = "." ELSE 0

\* The decimal literals pandas' parser and Python's float() both read: an
\* optional sign, digits, an optional point and digits (at most two decimals
\* are counted; exponents are not among the model's inputs).
IsDecimal(s) ==
    LET b == Unsigned(s)
        d == DotAt(b)
        ip == IF d = 0 THEN b ELSE SubSeq(b, 1, d - 1)
        fp == IF d = 0 THEN <<>> ELSE SubSeq(b, d + 1, Len(b))
    IN  /\ AllIn(ip, Digits) /\ AllIn(fp, Digits)
        /\ Len(ip) + Len(fp) >= 1
        /\ Len(fp) <= 2

IsInteger(s) == IsDecimal(s) /\ DotAt(Unsigned(s)) = 0

RECURSIVE DigitsVal(_)
DigitsVal(s) == IF s = <<>> THEN 0 ELSE DigitsVal(SubSeq(s, 1, Len(s) - 1)) * 10 + DigitVal(s[Len(s)])

\* The value of a decimal literal, in hundredths.
DecimalVal(s) ==
    LET b == Unsigned(s)
        d == DotAt(b)
        ip == IF d = 0 THEN b ELSE SubSeq(b, 1, d - 1)
        fp == IF d = 0 THEN <<>> ELSE SubSeq(b, d + 1, Len(b))
        fv == IF Len(fp) = 0 THEN 0 ELSE IF Len(fp) = 1 THEN DigitVal(fp[1]) * 10 ELSE DigitsVal(fp)
        m == DigitsVal(ip) * 100 + fv
    IN  IF s # <<>> /\ s[1] = "-" THEN -m ELSE m

----------------------------------------------------------------------------
(* DataValidator *)

\* A body of int(text, 16): hexadecimal digits, single underscores between them.
HexBody(s) ==
    /\ s # <<>>
    /\ s[1] \in HexChars /\ s[Len(s)] \in HexChars
    /\ AllIn(s, HexChars \cup {"_"})
    /\ \A i \in 1..(Len(s) - 1) : ~(s[i] = "_" /\ s[i + 1] = "_")

\* int(text, 16) returns (does not raise ValueError): surrounding whitespace,
\* a sign and a 0x prefix are accepted.
IntBase16(s) ==
    LET b == Unsigned(Strip(s))
        r == SubSeq(b, 3, Len(b))
    IN  \/ HexBody(b)
        \/ /\ Len(b) >= 2 /\ b[1] = "0" /\ b[2] \in {"x", "X"}
           /\ HexBody(IF r # <<>> /\ r[1] = "_" THEN Tail(r) ELSE r)

\* uuid.UUID(hex) returns: the constructor removes "urn:" and "uuid:", strips
\* braces, removes hyphens, and wants 32 characters that int(_, 16) reads.
UuidParses(s) ==
    LET h1 == RemoveAll(RemoveAll(s, <<"u", "r", "n", ":">>), <<"u", "u", "i", "d", ":">>)
        h2 == RemoveAll(StripChars(h1, {"{", "}"}), <<"-">>)
    IN  Len(h2) = 32 /\ IntBase16(h2)

is_valid_uuid(val) == UuidParses(StrOf(val))

\* re.match(r"[^@]+@[^@]+\.[^@]+", email) on text: a match from the start of
\* the text, not to its end.
is_valid_email(email) ==
    \E p \in DOMAIN email :
        /\ p >= 2 /\ email[p] = "@"
        /\ \A i \in 1..(p - 1) : email[i] # "@"
        /\ \E k \in (p + 2)..(Len(email) - 1) :
              /\ email[k] = "."
              /\ \A i \in (p + 1)..(k - 1) : email[i] # "@"
              /\ email[k + 1] # "@"

\* re.match(r"^\d{10}$", phone) on text ($ also matches before a last newline).
is_valid_phone(phone) ==
    LET b == IF Len(phone) = 11 /\ phone[11] = "\n" THEN SubSeq(phone, 1, 10) ELSE phone
    IN  Len(b) = 10 /\ AllIn(b, Digits)

----------------------------------------------------------------------------
(* pd.read_csv: a file is a sequence of rows of cell text; a frame is a      *)
(* sequence of rows, each with its index label idx and its cells c.          *)

\* Cell texts pandas reads as missing (its default na_values).
NAValues == {<<>>, <<"N", "A">>, <<"N", "/", "A">>, <<"n", "/", "a">>, <<"N", "a", "N">>,
             <<"n", "a", "n">>, <<"N", "U", "L", "L">>, <<"n", "u", "l", "l">>,
             <<"#", "N", "/", "A">>, <<"<", "N", "A", ">">>}

IsNA(x) == x \in NAValues

\* The parser's type inference, per column: numbers when every present cell
\* is one (int64 when none is missing and none has a point), text otherwise.
NumericColumn(file, col) ==
    file # <<>> /\ \A i \in DOMAIN file : IsNA(file[i][col]) \/ IsDecimal(file[i][col])

IntColumn(file, col) ==
    file # <<>> /\ \A i \in DOMAIN file : ~IsNA(file[i][col]) /\ IsInteger(file[i][col])

LoadCell(file, col, i) ==
    LET x == file[i][col]
    IN  IF IsNA(x) THEN NaN
        ELSE IF IntColumn(file, col) THEN Int64(DecimalVal(x))
        ELSE IF NumericColumn(file, col) THEN Float64(DecimalVal(x))
        ELSE Str(x)

read_csv(file, cols) ==
    [i \in DOMAIN file |-> [idx |-> i - 1, c |-> [col \in cols |-> LoadCell(file, col, i)]]]

\* The dtype of a column of a frame as loaded: object for text (and for a
\* frame with no rows), else int64 or float64.
Dtype(df, col) ==
    IF df = <<>> \/ \E i \in DOMAIN df : IsStr(df[i].c[col]) THEN "object"
    ELSE IF \A i \in DOMAIN df : df[i].c[col].t = "int" THEN "int64"
    ELSE "float64"

----------------------------------------------------------------------------
(* Frames *)

None == <<>>

Some(x) == <<x>>

\* The rows of df at the positions K, in order (boolean indexing).
RowsAt(df, K) ==
    [j \in 1..Cardinality(K) |-> df[CHOOSE i \in K : Cardinality({k \in K : k < i}) = j - 1]]

\* drop_duplicates left out: every row stays.
drop_duplicates_off(df, col) == df

\* drop_duplicates with keep='last': the last row of each value stays.
drop_duplicates_last(df, col) ==
    RowsAt(df, {i \in DOMAIN df : \A j \in (i + 1)..Len(df) : df[j].c[col] # df[i].c[col]})

\* DataFrame.drop_duplicates(subset=col): the first row of each value stays.
drop_duplicates(df, col) ==
    RowsAt(df, {i \in DOMAIN df : \A j \in 1..(i - 1) : df[j].c[col] # df[i].c[col]})

\* df[col] = f(cell), for every row.
MapColumn(df, col, F(_)) ==
    [i \in DOMAIN df |-> [df[i] EXCEPT !.c[col] = F(df[i].c[col])]]

\* One cell of pd.to_numeric(column, errors='coerce') before the column's
\* dtype is settled: a number stays, text that is a decimal becomes its value,
\* everything else is NaN.
CoerceCell(v) ==
    IF IsNum(v) THEN v
    ELSE IF IsStr(v) /\ IsDecimal(v.s) THEN (IF IsInteger(v.s) THEN Int64(DecimalVal(v.s)) ELSE Float64(DecimalVal(v.s)))
    ELSE NaN

\* pd.to_numeric(df[col], errors='coerce'): int64 only when every cell is an
\* integer, float64 otherwise.
to_numeric(df, col) ==
    LET allInt == \A i \in DOMAIN df : CoerceCell(df[i].c[col]).t = "int"
        Cell(v) == LET w == CoerceCell(v) IN IF w.t = "int" /\ ~allInt THEN Float64(w.n) ELSE w
    IN  MapColumn(df, col, Cell)

\* Series > 0 and Series >= 0, one cell: NaN compares false.
Positive(v) == IsNum(v) /\ v.n > 0

NonNegative(v) == IsNum(v) /\ v.n >= 0

\* (Series.str.strip() != ''), one cell of an object column: NaN stays NaN,
\* and NaN != '' is true.
NotBlank(v) == IF IsStr(v) THEN Strip(v.s) # <<>> ELSE TRUE

\* Series.isin(texts), one cell.
IsIn(v, texts) == IsStr(v) /\ v.s \in texts

----------------------------------------------------------------------------
(* Dates: orders['date'].str.extract(r'(\d{4}-\d{2}-\d{2})')[0] and           *)
(* pd.to_datetime(..., errors='coerce')                                      *)

DateShape(s) ==
    /\ Len(s) = 10
    /\ \A i \in {1, 2, 3, 4, 6, 7, 9, 10} : s[i] \in Digits
    /\ s[5] = "-" /\ s[8] = "-"

\* The first substring of the shape dddd-dd-dd, or the empty text.
ExtractDate(s) ==
    LET starts == {i \in 1..(Len(s) - 9) : DateShape(SubSeq(s, i, i + 9))}
    IN  IF starts = {} THEN <<>>
        ELSE LET i == CHOOSE k \in starts : \A m \in starts : k <= m IN SubSeq(s, i, i + 9)

IsLeap(y) == (y % 4 = 0 /\ y % 100 # 0) \/ y % 400 = 0

DaysIn(y, m) ==
    IF m = 2 THEN (IF IsLeap(y) THEN 29 ELSE 28)
    ELSE IF m \in {4, 6, 9, 11} THEN 30 ELSE 31

\* A calendar date that a Timestamp can hold (1677-09-21 to 2262-04-11).
ValidDate(s) ==
    LET y == DigitsVal(SubSeq(s, 1, 4))
        m == DigitsVal(SubSeq(s, 6, 7))
        d == DigitsVal(SubSeq(s, 9, 10))
        n == y * 10000 + m * 100 + d
    IN  /\ m \in 1..12 /\ d \in 1..DaysIn(y, m)
        /\ n >= 16770921 /\ n <= 22620411

Timestamp(s) == [t |-> "date", s |-> s, n |-> 0]

NaT == [t |-> "nat", s |-> <<>>, n |-> 0]

\* One cell of the date column after lines 114-117.
ParseDateCell(v) ==
    IF ~IsStr(v) THEN NaT
    ELSE LET x == ExtractDate(v.s)
         IN  IF x # <<>> /\ ValidDate(x) THEN Timestamp(x) ELSE NaT

----------------------------------------------------------------------------
(* DataCleaner: the five cleaners as functions of the loaded frames.  Each   *)
(* has the exception it raises on a frame ("none" when it returns), the      *)
(* frame it leaves in self.<entity> and the frame it stores in               *)
(* self.valid_<entity>.                                                      *)

\* Series.apply(f) of a validator that calls re.match raises TypeError on the
\* first cell that is not text.
ApplyRaises(df, col) == \E i \in DOMAIN df : ~IsStr(df[i].c[col])

\* Series.str raises AttributeError unless the column holds text.
StrAccessorRaises(df, col) == Dtype(df, col) # "object"

CustomerOk(r) ==
    /\ is_valid_uuid(r.c["id"])
    /\ NotBlank(r.c["name"])
    /\ (is_valid_email(r.c["email"].s) \/ is_valid_phone(r.c["phone"].s))

clean_customers_raises(customers) ==
    IF StrAccessorRaises(customers, "name") THEN "AttributeError"
    ELSE IF ApplyRaises(customers, "email") \/ ApplyRaises(customers, "phone") THEN "TypeError"
    ELSE "none"

clean_customers_valid(customers) ==
    drop_duplicates(SelectSeq(customers, CustomerOk), "id")

Categories == {<<"E", "l", "e", "c", "t", "r", "o", "n", "i", "c", "s">>, <<"F", "u", "r", "n", "i", "t", "u", "r", "e">>, <<"C", "l", "o", "t", "h", "i", "n", "g">>, <<"B", "e", "a", "u", "t", "y">>, <<"S", "p", "o", "r", "t", "s">>}

\* self.products after lines 83-84.
products_coerced(products) == to_numeric(to_numeric(products, "price"), "stock")

ProductOk(r) ==
    /\ is_valid_uuid(r.c["id"])
    /\ NotBlank(r.c["name"])
    /\ IsIn(r.c["category"], Categories)
    /\ Positive(r.c["price"])
    /\ NonNegative(r.c["stock"])

\* Lines 95-96 on one cell: str.replace(r'[^a-zA-Z0-9\s]', '') then str.strip().
StripName(v) == IF IsStr(v) THEN Str(Strip(KeepChars(v.s, Alnum \cup Whitespace))) ELSE v

clean_products_raises(products) ==
    IF StrAccessorRaises(products, "name") THEN "AttributeError" ELSE "none"

clean_products_valid(products) ==
    drop_duplicates(MapColumn(SelectSeq(products_coerced(products), ProductOk), "name", StripName), "id")

\* self.orders after lines 111-117.
orders_coerced(orders) == MapColumn(to_numeric(orders, "quantity"), "date", ParseDateCell)

\* OrderOk with quantity > 0 in place of quantity >= 0.
OrderOk_positive(r) ==
    /\ is_valid_uuid(r.c["id"])
    /\ is_valid_uuid(r.c["customer_id"])
    /\ is_valid_uuid(r.c["product_id"])
    /\ Positive(r.c["quantity"])
    /\ r.c["date"].t = "date"

OrderOk(r) ==
    /\ is_valid_uuid(r.c["id"])
    /\ is_valid_uuid(r.c["customer_id"])
    /\ is_valid_uuid(r.c["product_id"])
    /\ NonNegative(r.c["quantity"])
    /\ r.c["date"].t = "date"

clean_orders_raises(orders) ==
    IF StrAccessorRaises(orders, "date") THEN "AttributeError" ELSE "none"

clean_orders_valid(orders) ==
    drop_duplicates(SelectSeq(orders_coerced(orders), OrderOk), "id")

Carriers == {<<"F", "e", "d", "E", "x">>, <<"U", "P", "S">>, <<"D", "H", "L">>, <<"U", "S", "P", "S">>}

Statuses == {<<"S", "h", "i", "p", "p", "e", "d">>, <<"D", "e", "l", "i", "v", "e", "r", "e", "d">>, <<"D", "e", "l", "a", "y", "e", "d">>, <<"U", "n", "k", "n", "o", "w", "n">>}

ShipmentOk(r) ==
    /\ is_valid_uuid(r.c["id"])
    /\ is_valid_uuid(r.c["order_id"])
    /\ IsIn(r.c["carrier"], Carriers)
    /\ IsIn(r.c["status"], Statuses)

clean_shipments_valid(shipments) ==
    drop_duplicates(SelectSeq(shipments, ShipmentOk), "id")

\* self.refunds after line 158.
refunds_coerced(refunds) == to_numeric(refunds, "refund_amount")

RefundOk(r) ==
    /\ is_valid_uuid(r.c["id"])
    /\ is_valid_uuid(r.c["order_id"])
    /\ is_valid_uuid(r.c["product_id"])
    /\ Positive(r.c["refund_amount"])

clean_refunds_valid(refunds) ==
    drop_duplicates(SelectSeq(refunds_coerced(refunds), RefundOk), "id")

----------------------------------------------------------------------------
(* MetricsCalculator *)

RECURSIVE SumN(_, _)
SumN(f, S) == IF S = {} THEN 0 ELSE LET x == CHOOSE y \in S : TRUE IN f[x] + SumN(f, S \ {x})

\* The keys of a groupby in its sorted order.
SortedBy(K, Less(_, _)) ==
    [j \in 1..Cardinality(K) |-> CHOOSE k \in K : Cardinality({x \in K : Less(x, k)}) = j - 1]

PairLess(a, b) == TextLess(a[1], b[1]) \/ (a[1] = b[1] /\ TextLess(a[2], b[2]))

\* A number with the dtype of the column it is summed from.
Num(t, n) == [t |-> t, s |-> <<>>, n |-> n]

\* DataFrame.nlargest(TopN, metric): the TopN rows of largest metric, largest
\* first, rows of equal metric in their order in rows.
TopN == 5

nlargest(rows, Metric(_)) ==
    LET Rank(i) == Cardinality({j \in DOMAIN rows :
                       \/ Metric(rows[j]) > Metric(rows[i])
                       \/ (Metric(rows[j]) = Metric(rows[i]) /\ j < i)})
        K == {i \in DOMAIN rows : Rank(i) < TopN}
    IN  [j \in 1..Cardinality(K) |-> rows[CHOOSE i \in K : Rank(i) = j - 1]]

\* calculate_data_quality_metrics with the products line copied from the
\* customers line and its raw frame alone renamed.
calculate_data_quality_metrics_copied(loaded, cleaned) ==
    [invalid_customers_records |-> Len(loaded["customers"]) - Len(cleaned["customers"]),
     invalid_products_records |-> Len(loaded["products"]) - Len(cleaned["customers"]),
     invalid_orders_records |-> Len(loaded["orders"]) - Len(cleaned["orders"]),
     invalid_shipments_records |-> Len(loaded["shipments"]) - Len(cleaned["shipments"]),
     invalid_returns_records |-> Len(loaded["refunds"]) - Len(cleaned["refunds"])]

calculate_data_quality_metrics(loaded, cleaned) ==
    [invalid_customers_records |-> Len(loaded["customers"]) - Len(cleaned["customers"]),
     invalid_products_records |-> Len(loaded["products"]) - Len(cleaned["products"]),
     invalid_orders_records |-> Len(loaded["orders"]) - Len(cleaned["orders"]),
     invalid_shipments_records |-> Len(loaded["shipments"]) - Len(cleaned["shipments"]),
     invalid_returns_records |-> Len(loaded["refunds"]) - Len(cleaned["refunds"])]

\* MergePairs of a merge without its keys: every order with every row.
MergePairs_cross(orders, right, key) == (DOMAIN orders) \X (DOMAIN right)

\* valid_orders.merge(right, left_on=key, right_on='id'): the pairs (order
\* position, right position) of an inner join, in the order of the orders.
MergePairs(orders, right, key) ==
    {<<i, j>> \in (DOMAIN orders) \X (DOMAIN right) : orders[i].c[key] = right[j].c["id"]}

calculate_top_customers(valid_orders, valid_customers) ==
    LET M == {m \in MergePairs(valid_orders, valid_customers, "customer_id") :
                 IsStr(valid_customers[m[2]].c["name"])}
        KeyOf(m) == <<valid_orders[m[1]].c["customer_id"].s, valid_customers[m[2]].c["name"].s>>
        K == {KeyOf(m) : m \in M}
        keys == SortedBy(K, PairLess)
        Total(k) ==
            LET G == {m \in M : KeyOf(m) = k}
                any == CHOOSE m \in G : TRUE
            IN  Num(valid_orders[any[1]].c["quantity"].t,
                    SumN([m \in G |-> valid_orders[m[1]].c["quantity"].n], G))
        rows == [i \in DOMAIN keys |->
                    [customer_id |-> keys[i][1], name |-> keys[i][2], total_spent |-> Total(keys[i])]]
        Spent(r) == r.total_spent.n
    IN  nlargest(rows, Spent)

\* quantity * price, one order line.
Revenue(q, p) == Num(IF q.t = "int" /\ p.t = "int" THEN "int" ELSE "float", (q.n * p.n) \div 100)

calculate_top_products(valid_orders, valid_products) ==
    LET M == {m \in MergePairs(valid_orders, valid_products, "product_id") :
                 IsStr(valid_products[m[2]].c["name"])}
        KeyOf(m) == <<valid_orders[m[1]].c["product_id"].s, valid_products[m[2]].c["name"].s>>
        Rev(m) == Revenue(valid_orders[m[1]].c["quantity"], valid_products[m[2]].c["price"])
        K == {KeyOf(m) : m \in M}
        keys == SortedBy(K, PairLess)
        Total(k) ==
            LET G == {m \in M : KeyOf(m) = k}
                any == CHOOSE m \in G : TRUE
            IN  Num(Rev(any).t, SumN([m \in G |-> Rev(m).n], G))
        rows == [i \in DOMAIN keys |->
                    [product_id |-> keys[i][1], name |-> keys[i][2], total_revenue |-> Total(keys[i])]]
        Revenues(r) == r.total_revenue.n
    IN  nlargest(rows, Revenues)

Count(df, P(_)) == Cardinality({i \in DOMAIN df : P(df[i])})

calculate_shipping_performance(valid_shipments) ==
    LET K == {valid_shipments[i].c["carrier"].s : i \in {j \in DOMAIN valid_shipments : IsStr(valid_shipments[j].c["carrier"])}}
        keys == SortedBy(K, TextLess)
        Of(k, status) ==
            Count(valid_shipments, LAMBDA r : r.c["carrier"] = Str(k) /\ r.c["status"] = Str(status))
    IN  [i \in DOMAIN keys |->
            [carrier |-> keys[i],
             total_shipments |-> Count(valid_shipments, LAMBDA r : r.c["carrier"] = Str(keys[i]) /\ r.c["id"].t # "nan"),
             on_time_deliveries |-> Of(keys[i], <<"D", "e", "l", "i", "v", "e", "r", "e", "d">>),
             delayed_shipments |-> Of(keys[i], <<"D", "e", "l", "a", "y", "e", "d">>),
             undelivered_shipments |-> Of(keys[i], <<"U", "n", "k", "n", "o", "w", "n">>)]]

calculate_refund_analysis(valid_refunds) ==
    LET I == {i \in DOMAIN valid_refunds : IsStr(valid_refunds[i].c["reason"])}
        K == {valid_refunds[i].c["reason"].s : i \in I}
        keys == SortedBy(K, TextLess)
        G(k) == {i \in I : valid_refunds[i].c["reason"].s = k}
    IN  [i \in DOMAIN keys |->
            [reason |-> keys[i],
             total_returns |-> Cardinality({j \in G(keys[i]) : valid_refunds[j].c["id"].t # "nan"}),
             total_refund_amount |->
                 Num(valid_refunds[CHOOSE j \in G(keys[i]) : TRUE].c["refund_amount"].t,
                     SumN([j \in G(keys[i]) |-> valid_refunds[j].c["refund_amount"].n], G(keys[i])))]]

\* calculate_all_metrics with valid_names taken from the loaded customers.
calculate_all_metrics_raw_names(loaded, cleaned) ==
    [valid_names |-> [i \in DOMAIN loaded["customers"] |->
                         [uuid |-> loaded["customers"][i].c["id"], name |-> loaded["customers"][i].c["name"]]],
     data_quality_metrics |-> calculate_data_quality_metrics(loaded, cleaned),
     business_metrics |->
        [top_5_customers_by_total_spend |-> calculate_top_customers(cleaned["orders"], cleaned["customers"]),
         top_5_products_by_revenue |-> calculate_top_products(cleaned["orders"], cleaned["products"]),
         shipping_performance_by_carrier |-> calculate_shipping_performance(cleaned["shipments"]),
         refund_reason_analysis |-> calculate_refund_analysis(cleaned["refunds"])]]

calculate_all_metrics(loaded, cleaned) ==
    [valid_names |-> [i \in DOMAIN cleaned["customers"] |->
                         [uuid |-> cleaned["customers"][i].c["id"], name |-> cleaned["customers"][i].c["name"]]],
     data_quality_metrics |-> calculate_data_quality_metrics(loaded, cleaned),
     business_metrics |->
        [top_5_customers_by_total_spend |-> calculate_top_customers(cleaned["orders"], cleaned["customers"]),
         top_5_products_by_revenue |-> calculate_top_products(cleaned["orders"], cleaned["products"]),
         shipping_performance_by_carrier |-> calculate_shipping_performance(cleaned["shipments"]),
         refund_reason_analysis |-> calculate_refund_analysis(cleaned["refunds"])]]

----------------------------------------------------------------------------
(* The standalone script, src/Class_data_clean.py *)

\* clean_common on one cell: str(x).strip(), then every character outside
\* [a-zA-Z0-9:/ -] removed.
CommonKeep == Alnum \cup {":", "/", " ", "-"}

CleanCell(v) == Str(KeepChars(Strip(StrOf(v)), CommonKeep))

clean_common(df) ==
    [i \in DOMAIN df |-> [df[i] EXCEPT !.c = [col \in DOMAIN df[i].c |-> CleanCell(df[i].c[col])]]]

\* carrier_mapping, applied to the lower-cased carrier; a carrier it does not
\* hold stays as it is (fillna); then leading hyphens are removed.
CarrierCell(v) ==
    LET l == Lower(v.s)
        m == CASE l = <<"f", "e", "d", "e", "x">> -> <<"F", "e", "d", "E", "x">>
               [] l = <<"u", "p", "s">> -> <<"U", "P", "S">>
               [] l = <<"d", "h", "l">> -> <<"D", "H", "L">>
               [] l = <<"u", "s", "p", "s">> -> <<"U", "S", "P", "S">>
               [] OTHER -> v.s
    IN  Str(LStrip(m, {"-"}))

\* Lines 45-46 on one cell of a date column.
DateCell(v) ==
    LET x == KeepChars(v.s, Digits \cup {":", "/", " ", "-"})
    IN  Str(IF Len(x) > 10 THEN SubSeq(x, 1, Len(x) - 3) ELSE x)

\* The frame clean_shipments filters: lines 35-46 (the caller's frame is
\* changed in place up to here).
shipments_normalised(df) ==
    MapColumn(MapColumn(clean_common(df), "carrier", CarrierCell), "delivery_date", DateCell)

script_clean_shipments(df) ==
    drop_duplicates(
        SelectSeq(shipments_normalised(df),
                  LAMBDA r : is_valid_uuid(r.c["id"]) /\ is_valid_uuid(r.c["order_id"])),
        "id")

\* Series.isin(other["id"]), one cell.
IdIn(v, other) == \E j \in DOMAIN other : other[j].c["id"] = v

\* Line 80 on one cell: one trailing character that is neither a digit nor a
\* point is removed.
TrimAmount(v) ==
    IF v.s # <<>> /\ v.s[Len(v.s)] \notin (Digits \cup {"."})
    THEN Str(SubSeq(v.s, 1, Len(v.s) - 1)) ELSE v

\* float(text) returns: a decimal literal or nan, whitespace around it
\* allowed (infinities and exponents are not among the model's inputs).
IsNanText(s) == Lower(Unsigned(s)) = <<"n", "a", "n">>

FloatParses(s) == IsDecimal(Strip(s)) \/ IsNanText(Strip(s))

\* Lines 65-77: the rows that reach the refund_amount steps.
refunds_referenced(df, orders_df, products_df) ==
    SelectSeq(clean_common(df),
              LAMBDA r : /\ is_valid_uuid(r.c["id"])
                         /\ is_valid_uuid(r.c["order_id"])
                         /\ is_valid_uuid(r.c["product_id"])
                         /\ IdIn(r.c["order_id"], orders_df)
                         /\ IdIn(r.c["product_id"], products_df)
                         /\ Strip(r.c["reason"].s) # <<>>)

\* Line 81: astype(float) raises ValueError on text that is no float.
script_clean_refunds_raises(df, orders_df, products_df) ==
    LET d == MapColumn(refunds_referenced(df, orders_df, products_df), "refund_amount", TrimAmount)
    IN  IF \E i \in DOMAIN d : ~FloatParses(RemoveAll(d[i].c["refund_amount"].s, <<",">>))
        THEN "ValueError" ELSE "none"

script_clean_refunds(df, orders_df, products_df) ==
    LET d == MapColumn(refunds_referenced(df, orders_df, products_df), "refund_amount", TrimAmount)
        Amount(r) == Strip(RemoveAll(r.c["refund_amount"].s, <<",">>))
    IN  SelectSeq(d, LAMBDA r : IsDecimal(Amount(r)) /\ DecimalVal(Amount(r)) > 0)

\* Line 100: refund_amount.astype(float) / 100.
DivideCell(v) ==
    IF IsDecimal(Strip(v.s)) THEN Float64(DecimalVal(Strip(v.s)) \div 100) ELSE NaN

----------------------------------------------------------------------------
(* The alternate metrics script, src/Shipment_refund.py: it reads            *)
(* shipments.csv and refunds.csv as they are, classifies the shipments by    *)
(* keywords of their status and prints the two top-5 lists.                  *)

Bool(b) == [t |-> "bool", s |-> <<>>, n |-> IF b THEN 1 ELSE 0]

\* Line 13 on one cell: astype(str).str.lower().str.strip().
StatusCell(v) == Str(Strip(Lower(StrOf(v))))

clean_status(val) ==
    IF Contains(val, <<"s", "h", "i", "p", "p", "e", "d">>) /\ ~Contains(val, <<"d", "e", "l", "i", "v", "e", "r", "e", "d">>) THEN <<"s", "h", "i", "p", "p", "e", "d">>
    ELSE IF Contains(val, <<"i", "n", "_", "t", "r", "a", "n", "s", "i", "t">>) THEN <<"i", "n", "_", "t", "r", "a", "n", "s", "i", "t">>
    ELSE IF Contains(val, <<"d", "e", "l", "i", "v", "e", "r", "e", "d">>) THEN <<"d", "e", "l", "i", "v", "e", "r", "e", "d">>
    ELSE IF Contains(val, <<"c", "a", "n", "c", "e", "l">>) THEN <<"c", "a", "n", "c", "e", "l", "l", "e", "d">>
    ELSE <<"i", "n", "v", "a", "l", "i", "d">>

valid_statuses == {<<"s", "h", "i", "p", "p", "e", "d">>, <<"i", "n", "_", "t", "r", "a", "n", "s", "i", "t">>, <<"d", "e", "l", "i", "v", "e", "r", "e", "d">>, <<"c", "a", "n", "c", "e", "l", "l", "e", "d">>}

\* Line 35 on one cell: pd.to_datetime(errors="coerce").  The dates of the
\* model's files are empty or of the form YYYY-MM-DD.
DeliveryDateCell(v) ==
    IF IsStr(v) /\ DateShape(Strip(v.s)) /\ ValidDate(Strip(v.s)) THEN Timestamp(Strip(v.s)) ELSE NaT

\* Lines 38-40 with a shipped shipment flagged in none of the three columns.
Flags_shipped_unflagged(status_cleaned, delivery_date) ==
    [on_time |-> Bool(status_cleaned = <<"d", "e", "l", "i", "v", "e", "r", "e", "d">> /\ delivery_date.t = "date"),
     delayed |-> Bool(status_cleaned = <<"d", "e", "l", "i", "v", "e", "r", "e", "d">> /\ delivery_date.t # "date"),
     undelivered |-> Bool(status_cleaned \notin {<<"d", "e", "l", "i", "v", "e", "r", "e", "d">>, <<"s", "h", "i", "p", "p", "e", "d">>})]

\* Lines 38-40: the three flags of one shipment.
Flags(status_cleaned, delivery_date) ==
    [on_time |-> Bool(status_cleaned = <<"d", "e", "l", "i", "v", "e", "r", "e", "d">> /\ delivery_date.t = "date"),
     delayed |-> Bool(status_cleaned = <<"d", "e", "l", "i", "v", "e", "r", "e", "d">> /\ delivery_date.t # "date"),
     undelivered |-> Bool(status_cleaned # <<"d", "e", "l", "i", "v", "e", "r", "e", "d">>)]

\* One row of df_shipments after lines 13-40.
FlaggedRow(r) ==
    LET status == StatusCell(r.c["status"])
        cleaned == clean_status(status.s)
        date == DeliveryDateCell(r.c["delivery_date"])
        f == Flags(cleaned, date)
    IN  [idx |-> r.idx,
         c |-> [col \in DOMAIN r.c \cup {"status_cleaned", "on_time", "delayed", "undelivered"} |->
                   CASE col = "status" -> status
                     [] col = "status_cleaned" -> Str(cleaned)
                     [] col = "delivery_date" -> date
                     [] col = "on_time" -> f.on_time
                     [] col = "delayed" -> f.delayed
                     [] col = "undelivered" -> f.undelivered
                     [] OTHER -> r.c[col]]]

\* df_shipments after lines 13-40: the rows of a valid cleaned status, flagged.
flag_shipments(df_shipments) ==
    SelectSeq([i \in DOMAIN df_shipments |-> FlaggedRow(df_shipments[i])],
              LAMBDA r : r.c["status_cleaned"].s \in valid_statuses)

\* Lines 43-48: one row per carrier, carriers in sorted order, rows without a
\* carrier left out; count skips missing ids.
shipping_performance(df_shipments) ==
    LET I == {i \in DOMAIN df_shipments : IsStr(df_shipments[i].c["carrier"])}
        keys == SortedBy({df_shipments[i].c["carrier"].s : i \in I}, TextLess)
        G(k) == {i \in I : df_shipments[i].c["carrier"].s = k}
    IN  [j \in DOMAIN keys |->
            [carrier |-> keys[j],
             total_shipments |-> Cardinality({i \in G(keys[j]) : df_shipments[i].c["id"].t # "nan"}),
             on_time_deliveries |-> SumN([i \in G(keys[j]) |-> df_shipments[i].c["on_time"].n], G(keys[j])),
             delayed_shipments |-> SumN([i \in G(keys[j]) |-> df_shipments[i].c["delayed"].n], G(keys[j])),
             undelivered_shipments |-> SumN([i \in G(keys[j]) |-> df_shipments[i].c["undelivered"].n], G(keys[j]))]]

\* Line 51 without its nlargest.
top_5_shipping_performance_all(df_shipments) == shipping_performance(df_shipments)

\* Line 51.
top_5_shipping_performance(df_shipments) ==
    LET Total(r) == r.total_shipments IN nlargest(shipping_performance(df_shipments), Total)

\* Lines 61-64 over df_refund after line 58: one row per reason, rows without
\* a reason left out; count and sum skip the amounts that are NaN.
refund_reason_analysis(df_refund) ==
    LET I == {i \in DOMAIN df_refund : IsStr(df_refund[i].c["reason"])}
        keys == SortedBy({df_refund[i].c["reason"].s : i \in I}, TextLess)
        G(k) == {i \in I : df_refund[i].c["reason"].s = k /\ IsNum(df_refund[i].c["refund_amount"])}
        dtype == IF \A i \in DOMAIN df_refund : df_refund[i].c["refund_amount"].t = "int"
                 THEN "int" ELSE "float"
    IN  [j \in DOMAIN keys |->
            [reason |-> keys[j],
             total_returns |-> Cardinality(G(keys[j])),
             total_refund_amount |->
                 Num(dtype, SumN([i \in G(keys[j]) |-> df_refund[i].c["refund_amount"].n], G(keys[j])))]]

\* Line 67.
top_5_refund_reason_analysis(df_refund) ==
    LET Total(r) == r.total_refund_amount.n IN nlargest(refund_reason_analysis(df_refund), Total)

----------------------------------------------------------------------------
(* The CSV files a run reads.  A row of a file is a record of cell text.    *)

Entities == {"customers", "products", "orders", "shipments", "refunds"}

Cols(e) ==
    CASE e = "customers" -> {"id", "name", "email", "phone"}
      [] e = "products" -> {"id", "name", "category", "price", "stock"}
      [] e = "orders" -> {"id", "customer_id", "product_id", "quantity", "date"}
      [] e = "shipments" -> {"id", "order_id", "carrier", "status", "delivery_date"}
      [] e = "refunds" -> {"id", "order_id", "product_id", "reason", "refund_amount"}

Customer(id, name, email, phone) == [id |-> id, name |-> name, email |-> email, phone |-> phone]

Product(id, name, category, price, stock) ==
    [id |-> id, name |-> name, category |-> category, price |-> price, stock |-> stock]

Order(id, customer_id, product_id, quantity, date) ==
    [id |-> id, customer_id |-> customer_id, product_id |-> product_id, quantity |-> quantity, date |-> date]

Shipment(id, order_id, carrier, status, delivery_date) ==
    [id |-> id, order_id |-> order_id, carrier |-> carrier, status |-> status, delivery_date |-> delivery_date]

Refund(id, order_id, product_id, reason, refund_amount) ==
    [id |-> id, order_id |-> order_id, product_id |-> product_id, reason |-> reason, refund_amount |-> refund_amount]

\* A UUID in the 8-4-4-4-12 form, of one repeated hexadecimal digit.
Uuid(c) == Rep(c, 8) \o <<"-">> \o Rep(c, 4) \o <<"-">> \o Rep(c, 4) \o <<"-">> \o Rep(c, 4) \o <<"-">> \o Rep(c, 12)

UA == Uuid("a")

UB == Uuid("b")

UC == Uuid("c")

UD == Uuid("d")

UE == Uuid("e")

UF == Uuid("f")

U0 == Uuid("0")

U1 == Uuid("1")

U2 == Uuid("2")

U3 == Uuid("3")

U4 == Uuid("4")

U9 == Uuid("9")

Alice == Customer(UA, <<"A", "l", "i", "c", "e">>, <<"a", "@", "x", ".", "c", "o", "m">>, <<>>)

Bob == Customer(<<"n", "o", "t", "-", "a", "-", "u", "u", "i", "d">>, <<"B", "o", "b">>, <<"b", "@", "x", ".", "c", "o", "m">>, <<>>)

Carol == Customer(UB, <<"C", "a", "r", "o", "l">>, <<"b", "a", "d">>, <<"0", "0", "0", "0", "0", "0", "0", "0", "1", "2">>)

Dan == Customer(UA, <<"D", "a", "n">>, <<"d", "@", "x", ".", "c", "o", "m">>, <<"x", "1">>)

Eve == Customer(UC, <<" ", " ">>, <<"e", "@", "x", ".", "c", "o", "m">>, <<"x", "1">>)

Fay == Customer(UC, <<>>, <<"f", "@", "x", ".", "c", "o", "m">>, <<"x", "1">>)

Ann == Customer(UA, <<"A", "n", "n">>, <<"b", "a", "d">>, <<"0", "0", "0", "0", "0", "0", "0", "0", "1", "2">>)

Lamp == Product(UD, <<"L", "a", "m", "p">>, <<"F", "u", "r", "n", "i", "t", "u", "r", "e">>, <<"1", "2", ".", "5">>, <<"3">>)

Desk == Product(UD, <<"D", "e", "s", "k", " ", "#", "2">>, <<"F", "u", "r", "n", "i", "t", "u", "r", "e">>, <<"4", "0">>, <<"1">>)

Bang == Product(UE, <<"!", "!", "!">>, <<"B", "e", "a", "u", "t", "y">>, <<"5">>, <<"0">>)

Cap == Product(UE, <<"C", "a", "p">>, <<"T", "o", "y", "s">>, <<"5">>, <<"2">>)

Bat == Product(UE, <<"B", "a", "t">>, <<"S", "p", "o", "r", "t", "s">>, <<"a", "b", "c">>, <<"2">>)

Pen == Product(UE, <<"P", "e", "n">>, <<"E", "l", "e", "c", "t", "r", "o", "n", "i", "c", "s">>, <<"0">>, <<"1">>)

Tee == Product(UE, <<"T", "e", "e">>, <<"C", "l", "o", "t", "h", "i", "n", "g">>, <<"3">>, <<"-", "1">>)

Nameless == Product(UE, <<>>, <<"B", "e", "a", "u", "t", "y">>, <<"5">>, <<"2">>)

Mat == Product(UE, <<"M", "a", "t">>, <<"S", "p", "o", "r", "t", "s">>, <<"5">>, <<"2">>)

Order1 == Order(UF, UA, UD, <<"2">>, <<"2", "0", "2", "4", "-", "0", "1", "-", "1", "5">>)

Order1Again == Order(UF, UA, UD, <<"3">>, <<"o", "n", " ", "2", "0", "2", "4", "-", "0", "1", "-", "1", "6", " ", "x">>)

OrderNegative == Order(U0, UB, UE, <<"-", "1">>, <<"2", "0", "2", "4", "-", "0", "1", "-", "1", "5">>)

OrderNoQuantity == Order(U0, UB, UE, <<"a", "b", "c">>, <<"2", "0", "2", "4", "-", "0", "1", "-", "1", "5">>)

\* The first date of the text is no day of the calendar, the second is one.
OrderBadDay == Order(U0, UB, UE, <<"1">>, <<"2", "0", "2", "4", "-", "0", "2", "-", "3", "0", " ", "2", "0", "2", "4", "-", "0", "3", "-", "0", "1">>)

OrderSlashDate == Order(U0, UB, UE, <<"1">>, <<"1", "5", "/", "0", "1", "/", "2", "0", "2", "4">>)

OrderBadCustomer == Order(U0, <<"n", "o", "t", "-", "a", "-", "u", "u", "i", "d">>, UE, <<"1">>, <<"2", "0", "2", "4", "-", "0", "1", "-", "1", "5">>)

OrderNoDate == Order(U0, UB, UE, <<"4">>, <<>>)

Order2 == Order(U0, UC, UE, <<"0">>, <<"2", "0", "2", "4", "-", "0", "3", "-", "0", "1">>)

Order3 == Order(U0, UB, UE, <<"1">>, <<"2", "0", "2", "4", "-", "0", "3", "-", "0", "1">>)

Ship1 == Shipment(U1, UF, <<"F", "e", "d", "E", "x">>, <<"D", "e", "l", "i", "v", "e", "r", "e", "d">>, <<"2", "0", "2", "4", "-", "0", "1", "-", "2", "0">>)

Ship1Again == Shipment(U1, UF, <<"U", "P", "S">>, <<"D", "e", "l", "a", "y", "e", "d">>, <<>>)

ShipLower == Shipment(U2, UF, <<"f", "e", "d", "e", "x">>, <<"D", "e", "l", "i", "v", "e", "r", "e", "d">>, <<"2", "0", "2", "4", "-", "0", "1", "-", "2", "0">>)

ShipShout == Shipment(U2, UF, <<"D", "H", "L">>, <<" ", " ", "D", "e", "l", "i", "v", "e", "r", "e", "d", "!", "!", " ">>, <<"2", "0", "2", "4", "-", "0", "1", "-", "2", "0">>)

ShipAcme == Shipment(U2, UF, <<"A", "c", "m", "e">>, <<"S", "h", "i", "p", "p", "e", "d">>, <<"2", "0", "2", "4", "-", "0", "1", "-", "2", "0">>)

ShipBadOrder == Shipment(U2, <<"n", "o", "t", "-", "a", "-", "u", "u", "i", "d">>, <<"U", "S", "P", "S">>, <<"U", "n", "k", "n", "o", "w", "n">>, <<"2", "0", "2", "4", "-", "0", "1", "-", "2", "0">>)

ShipHyphen == Shipment(U2, U0, <<"-", "U", "P", "S">>, <<"i", "n", "_", "t", "r", "a", "n", "s", "i", "t">>, <<>>)

Ship2 == Shipment(U2, U0, <<"U", "P", "S">>, <<"D", "e", "l", "a", "y", "e", "d">>, <<>>)

Refund1 == Refund(U3, UF, UD, <<"D", "a", "m", "a", "g", "e", "d">>, <<"1", "2", ".", "5">>)

Refund1Again == Refund(U3, UF, UD, <<"L", "a", "t", "e">>, <<"7">>)

Refund2 == Refund(U4, U0, UE, <<"L", "a", "t", "e">>, <<"5">>)

RefundNoOrder == Refund(U4, U9, UD, <<"L", "a", "t", "e">>, <<"5">>)

RefundBlank == Refund(U4, UF, UD, <<" ", " ">>, <<"5">>)

RefundNoReason == Refund(U4, UF, UD, <<>>, <<"5">>)

RefundDollar == Refund(U4, UF, UD, <<"L", "a", "t", "e">>, <<"5", "$">>)

RefundNegative == Refund(U4, UF, UD, <<"L", "a", "t", "e">>, <<"-", "5">>)

RefundText == Refund(U4, UF, UD, <<"L", "a", "t", "e">>, <<"a", "b", "c">>)

\* An id of 32 hexadecimal digits without hyphens.
Gus == Customer(<<"c", "c", "c", "c", "c", "c", "c", "c", "c", "c", "c", "c", "c", "c", "c", "c", "c", "c", "c", "c", "c", "c", "c", "c", "c", "c", "c", "c", "c", "c", "c", "c">>, <<"G", "u", "s">>, <<"g", "@", "x", ".", "c", "o", "m">>, <<"x", "1">>)

CustomerPool == {Gus, Alice, Bob, Carol, Dan, Eve, Fay, Ann}

ProductPool == {Lamp, Desk, Bang, Cap, Bat, Pen, Tee, Nameless}

OrderPool == {Order1, Order1Again, OrderNegative, OrderNoQuantity, OrderBadDay, OrderSlashDate, OrderBadCustomer, OrderNoDate, Order2}

ShipmentPool == {Ship1, Ship1Again, ShipLower, ShipShout, ShipAcme, ShipBadOrder, ShipHyphen}

RefundPool == {Refund1, Refund1Again, Refund2, RefundNoOrder, RefundBlank, RefundNoReason, RefundDollar, RefundNegative, RefundText}

Pool(e) ==
    CASE e = "customers" -> CustomerPool
      [] e = "products" -> ProductPool
      [] e = "orders" -> OrderPool
      [] e = "shipments" -> ShipmentPool
      [] e = "refunds" -> RefundPool

\* Files with more groups than a top-5 list holds: six customers, products
\* and orders, eight shipments of six carriers, six refunds of six reasons.
ManyCustomers ==
    <<Customer(UA, <<"A", "d", "a">>, <<"a", "d", "a", "@", "x", ".", "c", "o", "m">>, <<"x", "1">>),
     Customer(UB, <<"B", "e", "n">>, <<"b", "e", "n", "@", "x", ".", "c", "o", "m">>, <<"x", "1">>),
     Customer(UC, <<"C", "y">>, <<"c", "y", "@", "x", ".", "c", "o", "m">>, <<"x", "1">>),
     Customer(UD, <<"D", "e", "e">>, <<"d", "e", "e", "@", "x", ".", "c", "o", "m">>, <<"x", "1">>),
     Customer(UE, <<"E", "l", "i">>, <<"e", "l", "i", "@", "x", ".", "c", "o", "m">>, <<"x", "1">>),
     Customer(UF, <<"F", "l", "o">>, <<"f", "l", "o", "@", "x", ".", "c", "o", "m">>, <<"x", "1">>)>>

ManyProducts ==
    <<Product(UA, <<"P", "A">>, <<"F", "u", "r", "n", "i", "t", "u", "r", "e">>, <<"1">>, <<"1">>),
     Product(UB, <<"P", "B">>, <<"F", "u", "r", "n", "i", "t", "u", "r", "e">>, <<"2">>, <<"1">>),
     Product(UC, <<"P", "C">>, <<"F", "u", "r", "n", "i", "t", "u", "r", "e">>, <<"3">>, <<"1">>),
     Product(UD, <<"P", "D">>, <<"F", "u", "r", "n", "i", "t", "u", "r", "e">>, <<"4">>, <<"1">>),
     Product(UE, <<"P", "E">>, <<"F", "u", "r", "n", "i", "t", "u", "r", "e">>, <<"5">>, <<"1">>),
     Product(UF, <<"P", "F">>, <<"F", "u", "r", "n", "i", "t", "u", "r", "e">>, <<"6">>, <<"1">>)>>

ManyOrders ==
    <<Order(U0, UA, UA, <<"3">>, <<"2", "0", "2", "4", "-", "0", "1", "-", "1", "5">>),
     Order(U1, UB, UB, <<"1">>, <<"2", "0", "2", "4", "-", "0", "1", "-", "1", "5">>),
     Order(U2, UC, UC, <<"2">>, <<"2", "0", "2", "4", "-", "0", "1", "-", "1", "5">>),
     Order(U3, UD, UD, <<"2">>, <<"2", "0", "2", "4", "-", "0", "1", "-", "1", "5">>),
     Order(U4, UE, UE, <<"5">>, <<"2", "0", "2", "4", "-", "0", "1", "-", "1", "5">>),
     Order(U9, UF, UF, <<"4">>, <<"2", "0", "2", "4", "-", "0", "1", "-", "1", "5">>)>>

ManyShipments ==
    <<Shipment(U0, U0, <<"F", "e", "d", "E", "x">>, <<"D", "e", "l", "i", "v", "e", "r", "e", "d">>, <<"2", "0", "2", "4", "-", "0", "1", "-", "2", "0">>),
     Shipment(U1, U1, <<"U", "P", "S">>, <<"D", "e", "l", "i", "v", "e", "r", "e", "d">>, <<>>),
     Shipment(U2, U2, <<"D", "H", "L">>, <<"i", "n", "_", "t", "r", "a", "n", "s", "i", "t">>, <<>>),
     Shipment(U3, U3, <<"U", "S", "P", "S">>, <<"S", "h", "i", "p", "p", "e", "d">>, <<"2", "0", "2", "4", "-", "0", "1", "-", "2", "0">>),
     Shipment(U4, U4, <<"A", "c", "m", "e">>, <<"C", "a", "n", "c", "e", "l", "l", "e", "d">>, <<>>),
     Shipment(U9, U9, <<"B", "o", "l", "t">>, <<"s", "h", "i", "p", "p", "e", "d", " ", "a", "n", "d", " ", "d", "e", "l", "i", "v", "e", "r", "e", "d">>, <<"2", "0", "2", "4", "-", "0", "1", "-", "2", "1">>),
     Shipment(UA, U0, <<"F", "e", "d", "E", "x">>, <<"D", "e", "l", "a", "y", "e", "d", " ", "t", "h", "e", "n", " ", "d", "e", "l", "i", "v", "e", "r", "e", "d">>, <<>>),
     Shipment(UB, U1, <<"U", "P", "S">>, <<"L", "o", "s", "t">>, <<>>)>>

ManyRefunds ==
    <<Refund(U0, U0, UA, <<"D", "a", "m", "a", "g", "e", "d">>, <<"5">>),
     Refund(U1, U1, UB, <<"L", "a", "t", "e">>, <<"7">>),
     Refund(U2, U2, UC, <<"W", "r", "o", "n", "g">>, <<"5">>),
     Refund(U3, U3, UD, <<"B", "r", "o", "k", "e", "n">>, <<"1">>),
     Refund(U4, U4, UE, <<"U", "n", "w", "a", "n", "t", "e", "d">>, <<"9">>),
     Refund(U9, U9, UF, <<"O", "t", "h", "e", "r">>, <<"3">>)>>

\* The files of the entities a run does not vary: a full set whose references
\* resolve, and a sparse one whose refund refers to no order and no product.
Scenarios == {"full", "sparse"}

ReportScenarios == {"full", "sparse", "many"}

Base(scn, e) ==
    IF scn = "many"
    THEN CASE e = "customers" -> ManyCustomers
           [] e = "products" -> ManyProducts
           [] e = "orders" -> ManyOrders
           [] e = "shipments" -> ManyShipments
           [] e = "refunds" -> ManyRefunds
    ELSE IF scn = "full"
    THEN CASE e = "customers" -> <<Dan, Carol>>
           [] e = "products" -> <<Lamp, Mat>>
           [] e = "orders" -> <<Order1, Order3>>
           [] e = "shipments" -> <<Ship1, Ship2>>
           [] e = "refunds" -> <<Refund1, Refund2>>
    ELSE CASE e = "customers" -> <<Dan>>
           [] e = "products" -> <<Lamp>>
           [] e = "orders" -> <<Order1>>
           [] e = "shipments" -> <<>>
           [] e = "refunds" -> <<Refund2>>

\* The most rows of the file a run varies.
MaxRows == 2

\* The same for the runs that are followed to their reports and run again.
MaxReportRows == 1

\* The same for the clients that call the cleaners in an order of their own.
MaxApiRows == 1

\* The files a program loads.
Reads(p) ==
    CASE p = "etl" -> Entities
      [] p = "script" -> Entities \ {"customers"}
      [] p = "alt" -> {"shipments", "refunds"}
      [] p = "api" -> Entities

SeqsUpTo(S, n) == UNION {[1..k -> S] : k \in 0..n}

----------------------------------------------------------------------------
(* State *)

VARIABLES
    files,      \* the CSV file of each entity, as rows of cell text
    loadable,   \* the entities whose file pd.read_csv reads without raising
    prog,       \* "etl": main() of v1/ETL_pipeline.py; "script": __main__ of Class_data_clean.py;
                \* "alt": Shipment_refund.py; "api": a client of DataCleaner and MetricsCalculator
    pc,         \* the statement of that program that runs next
    raw,        \* the loaded frames: self.customers ... self.refunds; shipments_df ... products_df;
                \* df_refund, and df_shipments as loaded
    valid,      \* the cleaned frames: self.valid_customers ...; cleaned_shipments_df, cleaned_refunds_df;
                \* df_shipments from line 13 on
    err,        \* the exception that ended the run, "none" while there is none
    response,   \* what calculate_all_metrics returned; output of Shipment_refund.py
    out_file    \* what was written: response.json; cleaned_shipments.csv and cleaned_refunds.csv;
                \* what Shipment_refund.py printed

vars == <<files, loadable, prog, pc, raw, valid, err, response, out_file>>

\* A run reads five files that load, one of them ranging over the rows of its
\* pool, or the files of a scenario of which one does not load.
Start(progs, scns, n) ==
    /\ prog \in progs
    /\ \E scn \in scns, f \in Entities :
          \/ /\ f \in Reads(prog)
             /\ loadable = Entities
             /\ \E x \in SeqsUpTo(Pool(f), n) :
                   files = [e \in Entities |-> IF e = f THEN x ELSE Base(scn, e)]
          \/ /\ loadable = Entities \ {f}
             /\ files = [e \in Entities |-> Base(scn, e)]
    /\ pc = "start"
    /\ raw = [e \in Entities |-> <<>>]
    /\ valid = [e \in Entities |-> None]
    /\ err = "none"
    /\ response = None
    /\ out_file = None

\* A run of the pipeline or of the standalone cleaning script.
Init == Start({"etl", "script"}, Scenarios, MaxRows)

\* A run of the pipeline or of the alternate metrics script.
ReportInit == Start({"etl", "alt"}, ReportScenarios, MaxReportRows)

\* A client of the two classes of v1/ETL_pipeline.py, over the sparse files.
ApiScenarios == {"sparse"}

ApiInit == Start({"api"}, ApiScenarios, MaxApiRows)

\* A statement raised: nothing catches it, the run ends.
Raise(exc) == pc' = "aborted" /\ err' = exc

----------------------------------------------------------------------------
(* main() of src/v1/ETL_pipeline.py *)

\* LoadFails of a loader whose failure goes unnoticed.
LoadFails_never(needed, present) == FALSE

\* pd.read_csv raises (FileNotFoundError, for one) on a file it cannot read;
\* no caller catches it.
LoadFails(needed, present) == ~(needed \subseteq present)

\* DataCleaner.__init__: the five files are loaded, the cleaned frames unset;
\* when a load raises, no DataCleaner is constructed.
DataCleaner_init ==
    /\ prog = "etl" /\ pc = "start"
    /\ IF LoadFails(Entities, loadable)
       THEN Raise("FileNotFoundError") /\ UNCHANGED <<raw, valid>>
       ELSE /\ raw' = [e \in Entities |-> read_csv(files[e], Cols(e))]
            /\ valid' = [e \in Entities |-> None]
            /\ pc' = "clean_customers" /\ UNCHANGED err
    /\ UNCHANGED <<files, loadable, prog, response, out_file>>

clean_customers ==
    /\ prog = "etl" /\ pc = "clean_customers"
    /\ IF clean_customers_raises(raw["customers"]) # "none"
       THEN Raise(clean_customers_raises(raw["customers"])) /\ UNCHANGED valid
       ELSE /\ valid' = [valid EXCEPT !["customers"] = Some(clean_customers_valid(raw["customers"]))]
            /\ pc' = "clean_products" /\ UNCHANGED err
    /\ UNCHANGED <<files, loadable, prog, raw, response, out_file>>

clean_products ==
    /\ prog = "etl" /\ pc = "clean_products"
    /\ raw' = [raw EXCEPT !["products"] = products_coerced(raw["products"])]
    /\ IF clean_products_raises(raw["products"]) # "none"
       THEN Raise(clean_products_raises(raw["products"])) /\ UNCHANGED valid
       ELSE /\ valid' = [valid EXCEPT !["products"] = Some(clean_products_valid(raw["products"]))]
            /\ pc' = "clean_orders" /\ UNCHANGED err
    /\ UNCHANGED <<files, loadable, prog, response, out_file>>

clean_orders ==
    /\ prog = "etl" /\ pc = "clean_orders"
    /\ IF clean_orders_raises(raw["orders"]) # "none"
       THEN /\ raw' = [raw EXCEPT !["orders"] = to_numeric(raw["orders"], "quantity")]
            /\ Raise(clean_orders_raises(raw["orders"])) /\ UNCHANGED valid
       ELSE /\ raw' = [raw EXCEPT !["orders"] = orders_coerced(raw["orders"])]
            /\ valid' = [valid EXCEPT !["orders"] = Some(clean_orders_valid(raw["orders"]))]
            /\ pc' = "clean_shipments" /\ UNCHANGED err
    /\ UNCHANGED <<files, loadable, prog, response, out_file>>

clean_shipments ==
    /\ prog = "etl" /\ pc = "clean_shipments"
    /\ valid' = [valid EXCEPT !["shipments"] = Some(clean_shipments_valid(raw["shipments"]))]
    /\ pc' = "clean_refunds"
    /\ UNCHANGED <<files, loadable, prog, raw, err, response, out_file>>

clean_refunds ==
    /\ prog = "etl" /\ pc = "clean_refunds"
    /\ raw' = [raw EXCEPT !["refunds"] = refunds_coerced(raw["refunds"])]
    /\ valid' = [valid EXCEPT !["refunds"] = Some(clean_refunds_valid(raw["refunds"]))]
    /\ pc' = "metrics"
    /\ UNCHANGED <<files, loadable, prog, err, response, out_file>>

\* metrics with valid_names built by dropping, in self.valid_customers itself,
\* the rows that have no name.
metrics_inplace ==
    /\ prog = "etl" /\ pc = "metrics"
    /\ response' = Some(calculate_all_metrics(raw, [e \in Entities |-> valid[e][1]]))
    /\ valid' = [valid EXCEPT !["customers"] =
                     Some(SelectSeq(valid["customers"][1], LAMBDA r : IsStr(r.c["name"]) /\ r.c["name"].s # <<>>))]
    /\ pc' = "write"
    /\ UNCHANGED <<files, loadable, prog, raw, err, out_file>>

\* MetricsCalculator(cleaner).calculate_all_metrics(), from main.
metrics ==
    /\ prog = "etl" /\ pc = "metrics"
    /\ response' = Some(calculate_all_metrics(raw, [e \in Entities |-> valid[e][1]]))
    /\ pc' = "write"
    /\ UNCHANGED <<files, loadable, prog, raw, valid, err, out_file>>

\* open(file_path, 'w') and write: the file holds what was written, whatever
\* it held before.
WriteFile(old, new) == new

\* json.dumps(response) written to response.json.
write_json ==
    /\ prog = "etl" /\ pc = "write"
    /\ out_file' = WriteFile(out_file, response)
    /\ pc' = "done"
    /\ UNCHANGED <<files, loadable, prog, raw, valid, err, response>>

----------------------------------------------------------------------------
(* __main__ of src/Class_data_clean.py *)

script_load ==
    /\ prog = "script" /\ pc = "start"
    /\ IF LoadFails(Entities \ {"customers"}, loadable)
       THEN Raise("FileNotFoundError") /\ UNCHANGED raw
       ELSE /\ raw' = [e \in Entities |-> IF e = "customers" THEN <<>> ELSE read_csv(files[e], Cols(e))]
            /\ pc' = "clean_shipments" /\ UNCHANGED err
    /\ UNCHANGED <<files, loadable, prog, valid, response, out_file>>

script_shipments ==
    /\ prog = "script" /\ pc = "clean_shipments"
    /\ raw' = [raw EXCEPT !["shipments"] = shipments_normalised(raw["shipments"])]
    /\ valid' = [valid EXCEPT !["shipments"] = Some(script_clean_shipments(raw["shipments"]))]
    /\ pc' = "clean_refunds"
    /\ UNCHANGED <<files, loadable, prog, err, response, out_file>>

script_refunds ==
    /\ prog = "script" /\ pc = "clean_refunds"
    /\ raw' = [raw EXCEPT !["refunds"] = clean_common(raw["refunds"])]
    /\ LET exc == script_clean_refunds_raises(raw["refunds"], raw["orders"], raw["products"])
       IN  IF exc # "none"
           THEN Raise(exc) /\ UNCHANGED valid
           ELSE /\ valid' = [valid EXCEPT !["refunds"] =
                                Some(script_clean_refunds(raw["refunds"], raw["orders"], raw["products"]))]
                /\ pc' = "divide" /\ UNCHANGED err
    /\ UNCHANGED <<files, loadable, prog, response, out_file>>

\* Line 100.
script_divide ==
    /\ prog = "script" /\ pc = "divide"
    /\ valid' = [valid EXCEPT !["refunds"] = Some(MapColumn(valid["refunds"][1], "refund_amount", DivideCell))]
    /\ pc' = "save"
    /\ UNCHANGED <<files, loadable, prog, raw, err, response, out_file>>

\* Lines 103-104.
script_save ==
    /\ prog = "script" /\ pc = "save"
    /\ out_file' = Some([cleaned_shipments |-> valid["shipments"][1], cleaned_refunds |-> valid["refunds"][1]])
    /\ pc' = "done"
    /\ UNCHANGED <<files, loadable, prog, raw, valid, err, response>>

----------------------------------------------------------------------------
(* main() run again over the same files: a new process, response.json as the *)
(* run before left it.                                                       *)

\* rerun over files that were replaced in between.
rerun_on_other_files ==
    /\ prog = "etl" /\ pc = "done"
    /\ pc' = "start"
    /\ files' = [e \in Entities |-> Base("sparse", e)]
    /\ raw' = [e \in Entities |-> <<>>]
    /\ valid' = [e \in Entities |-> None]
    /\ response' = None
    /\ UNCHANGED <<loadable, prog, err, out_file>>

rerun ==
    /\ prog = "etl" /\ pc = "done"
    /\ pc' = "start"
    /\ raw' = [e \in Entities |-> <<>>]
    /\ valid' = [e \in Entities |-> None]
    /\ response' = None
    /\ UNCHANGED <<files, loadable, prog, err, out_file>>

----------------------------------------------------------------------------
(* src/Shipment_refund.py *)

\* Lines 5-6.
alt_load ==
    /\ prog = "alt" /\ pc = "start"
    /\ IF LoadFails(Reads("alt"), loadable)
       THEN Raise("FileNotFoundError") /\ UNCHANGED raw
       ELSE /\ raw' = [e \in Entities |-> IF e \in Reads("alt") THEN read_csv(files[e], Cols(e)) ELSE <<>>]
            /\ pc' = "alt_shipments" /\ UNCHANGED err
    /\ UNCHANGED <<files, loadable, prog, valid, response, out_file>>

\* Lines 13-40.
alt_shipments ==
    /\ prog = "alt" /\ pc = "alt_shipments"
    /\ valid' = [valid EXCEPT !["shipments"] = Some(flag_shipments(raw["shipments"]))]
    /\ pc' = "alt_refunds"
    /\ UNCHANGED <<files, loadable, prog, raw, err, response, out_file>>

\* Line 58.
alt_refunds ==
    /\ prog = "alt" /\ pc = "alt_refunds"
    /\ raw' = [raw EXCEPT !["refunds"] = to_numeric(raw["refunds"], "refund_amount")]
    /\ pc' = "alt_output"
    /\ UNCHANGED <<files, loadable, prog, valid, err, response, out_file>>

\* Lines 43-51 and 61-80: the two lists, assembled and printed.
alt_output ==
    /\ prog = "alt" /\ pc = "alt_output"
    /\ response' = Some([shipping_performance_by_carrier |-> top_5_shipping_performance(valid["shipments"][1]),
                         refund_reason_analysis |-> top_5_refund_reason_analysis(raw["refunds"])])
    /\ out_file' = response'
    /\ pc' = "done"
    /\ UNCHANGED <<files, loadable, prog, raw, valid, err>>

----------------------------------------------------------------------------
(* A client of DataCleaner and MetricsCalculator other than main(): it       *)
(* constructs a DataCleaner, calls each cleaner at most once, in any order,  *)
(* and calls calculate_all_metrics whenever it likes.  An exception ends it. *)

\* DataCleaner(): __init__, lines 35-52.
construct ==
    /\ prog = "api" /\ pc = "start"
    /\ IF LoadFails(Entities, loadable)
       THEN Raise("FileNotFoundError") /\ UNCHANGED <<raw, valid>>
       ELSE /\ raw' = [e \in Entities |-> read_csv(files[e], Cols(e))]
            /\ valid' = [e \in Entities |-> None]
            /\ pc' = "constructed" /\ UNCHANGED err
    /\ UNCHANGED <<files, loadable, prog, response, out_file>>

\* The exception clean_<e> raises over the loaded frame df, "none" when it
\* returns.
CleanerRaises(e, df) ==
    CASE e = "customers" -> clean_customers_raises(df)
      [] e = "products" -> clean_products_raises(df)
      [] e = "orders" -> clean_orders_raises(df)
      [] OTHER -> "none"

\* self.<e> once clean_<e> has returned or raised.
CleanerLoaded(e, df) ==
    CASE e = "customers" -> df
      [] e = "products" -> products_coerced(df)
      [] e = "orders" -> IF clean_orders_raises(df) # "none" THEN to_numeric(df, "quantity") ELSE orders_coerced(df)
      [] e = "shipments" -> df
      [] e = "refunds" -> refunds_coerced(df)

\* self.valid_<e> as clean_<e> assigns it.
CleanerValid(e, df) ==
    CASE e = "customers" -> clean_customers_valid(df)
      [] e = "products" -> clean_products_valid(df)
      [] e = "orders" -> clean_orders_valid(df)
      [] e = "shipments" -> clean_shipments_valid(df)
      [] e = "refunds" -> clean_refunds_valid(df)

\* cleaner.clean_<e>().
call_cleaner(e) ==
    /\ prog = "api" /\ pc = "constructed" /\ valid[e] = None
    /\ raw' = [raw EXCEPT ![e] = CleanerLoaded(e, raw[e])]
    /\ IF CleanerRaises(e, raw[e]) # "none"
       THEN Raise(CleanerRaises(e, raw[e])) /\ UNCHANGED valid
       ELSE /\ valid' = [valid EXCEPT ![e] = Some(CleanerValid(e, raw[e]))]
            /\ UNCHANGED <<pc, err>>
    /\ UNCHANGED <<files, loadable, prog, response, out_file>>

\* A cleaned frame as len() and merge see it; len(None) raises TypeError.
Unset(cleaned) == {e \in Entities : cleaned[e] = None}

\* call_calculate_all_metrics of a calculator that takes an unset cleaned
\* frame for an empty one.
call_calculate_all_metrics_lenient ==
    /\ prog = "api" /\ pc = "constructed"
    /\ response' = Some(calculate_all_metrics(raw, [e \in Entities |-> IF valid[e] = None THEN <<>> ELSE valid[e][1]]))
    /\ pc' = "done"
    /\ UNCHANGED <<files, loadable, prog, raw, valid, err, out_file>>

\* MetricsCalculator(cleaner).calculate_all_metrics(): its first step,
\* calculate_data_quality_metrics, takes len() of the five cleaned frames.
call_calculate_all_metrics ==
    /\ prog = "api" /\ pc = "constructed"
    /\ IF Unset(valid) # {}
       THEN Raise("TypeError") /\ UNCHANGED response
       ELSE /\ response' = Some(calculate_all_metrics(raw, [e \in Entities |-> valid[e][1]]))
            /\ pc' = "done" /\ UNCHANGED err
    /\ UNCHANGED <<files, loadable, prog, raw, valid, out_file>>

Next ==
    \/ DataCleaner_init
    \/ clean_customers
    \/ clean_products
    \/ clean_orders
    \/ clean_shipments
    \/ clean_refunds
    \/ metrics
    \/ write_json
    \/ script_load
    \/ script_shipments
    \/ script_refunds
    \/ script_divide
    \/ script_save

Spec == Init /\ [][Next]_vars

\* The runs that end in a report: the pipeline, run again when it is done, and
\* the alternate metrics script.
ReportNext ==
    \/ DataCleaner_init
    \/ clean_customers
    \/ clean_products
    \/ clean_orders
    \/ clean_shipments
    \/ clean_refunds
    \/ metrics
    \/ write_json
    \/ rerun
    \/ alt_load
    \/ alt_shipments
    \/ alt_refunds
    \/ alt_output

ReportSpec == ReportInit /\ [][ReportNext]_vars

\* The clients of the two classes.
ApiNext ==
    \/ construct
    \/ \E e \in Entities : call_cleaner(e)
    \/ call_calculate_all_metrics

ApiSpec == ApiInit /\ [][ApiNext]_vars

----------------------------------------------------------------------------
(* What the claims speak of *)

Cleaned(e) == valid[e][1]

HasRun(e) == valid[e] # None

\* The cleaners in the order of clean_all_data.
EtlOrder == <<"customers", "products", "orders", "shipments", "refunds">>

\* The cleaner of the k-th entity was called by main: it returned, or it is
\* the one that raised.
Called(k) ==
    /\ prog = "etl"
    /\ \/ HasRun(EtlOrder[k])
       \/ pc = "aborted" /\ \A j \in 1..(k - 1) : HasRun(EtlOrder[j])

\* Row i of the file of e is in the cleaned frame (under its index label).
Kept(e, i) == HasRun(e) /\ \E k \in DOMAIN Cleaned(e) : Cleaned(e)[k].idx = i - 1

\* The cleaned row that comes from row i of the file.
CleanedRow(e, i) == Cleaned(e)[CHOOSE k \in DOMAIN Cleaned(e) : Cleaned(e)[k].idx = i - 1]

UniqueIds(df) == \A i, j \in DOMAIN df : df[i].c["id"] = df[j].c["id"] => i = j

IdsOf(df) == {df[i].c["id"] : i \in DOMAIN df}

\* A date of the calendar, on text of the shape dddd-dd-dd.
CalendarDate(s) ==
    LET y == DigitsVal(SubSeq(s, 1, 4))
        m == DigitsVal(SubSeq(s, 6, 7))
        d == DigitsVal(SubSeq(s, 9, 10))
    IN  m \in 1..12 /\ d >= 1 /\ d <= DaysIn(y, m)

HasValidDate(s) ==
    \E i \in 1..(Len(s) - 9) : DateShape(SubSeq(s, i, i + 9)) /\ CalendarDate(SubSeq(s, i, i + 9))

ParsesAtLeast(x, least) == IsDecimal(x) /\ DecimalVal(x) >= least

\* The conditions the specification gives for an Order row, on the file's text.
OrderRowValid(x) ==
    /\ UuidParses(x.id) /\ UuidParses(x.customer_id) /\ UuidParses(x.product_id)
    /\ ParsesAtLeast(x.quantity, 0)
    /\ HasValidDate(x.date)

\* The conditions the specification gives for a Customer row.
CustomerRowValid(x) ==
    /\ UuidParses(x.id)
    /\ Strip(x.name) # <<>>
    /\ (is_valid_email(x.email) \/ is_valid_phone(x.phone))

\* The conditions the specification gives for a Shipment row of the
\* enum-gated cleaner.
ShipmentRowValid(x) ==
    /\ UuidParses(x.id) /\ UuidParses(x.order_id)
    /\ \E c \in Carriers : Lower(c) = Lower(x.carrier)
    /\ x.status \in Statuses

\* The conditions the specification gives for a Product row; the name is
\* judged after the stripping pass.
ProductRowValid(x) ==
    /\ UuidParses(x.id)
    /\ x.category \in Categories
    /\ IsDecimal(x.price) /\ DecimalVal(x.price) > 0
    /\ ParsesAtLeast(x.stock, 0)
    /\ Strip(KeepChars(x.name, Alnum \cup {" "})) # <<>>

\* A refund amount after its commas and its trailing non-numeric characters
\* are removed.
AmountText(x) ==
    RStrip(RemoveAll(x, <<",">>),
           ({Ascii[i] : i \in DOMAIN Ascii} \cup Whitespace) \ (Digits \cup {"."}))

\* The conditions the specification gives for the amount of a Refund row.
AmountRowValid(x) == IsDecimal(AmountText(x)) /\ DecimalVal(AmountText(x)) > 0

----------------------------------------------------------------------------
(* C1 *)

\* C1 (as stated): after a full run of the pipeline every cleaned Refund's
\* order_id is the id of a cleaned Order and its product_id the id of a
\* cleaned Product, and a raw Refund whose order_id is no cleaned Order's id is
\* excluded, so that refund_reason_analysis counts only referenced refunds.
C1_RefundsReferenceCleaned ==
    (prog = "etl" /\ pc = "done") =>
        /\ \A k \in DOMAIN Cleaned("refunds") :
              /\ Cleaned("refunds")[k].c["order_id"] \in IdsOf(Cleaned("orders"))
              /\ Cleaned("refunds")[k].c["product_id"] \in IdsOf(Cleaned("products"))
        /\ \A i \in DOMAIN files["refunds"] :
              Str(files["refunds"][i].order_id) \notin IdsOf(Cleaned("orders")) => ~Kept("refunds", i)
        /\ response[1].business_metrics.refund_reason_analysis =
              calculate_refund_analysis(
                  SelectSeq(Cleaned("refunds"), LAMBDA r : r.c["order_id"] \in IdsOf(Cleaned("orders"))))

----------------------------------------------------------------------------
(* C2 *)

\* C2 (as stated): the cleaned dataset of every cleaner, of the pipeline and
\* of the standalone script, holds no two rows of the same id.
C2_AllCleanersUnique == \A e \in Entities : HasRun(e) => UniqueIds(Cleaned(e))

\* C2 (amended): the cleaned dataset of every cleaner of the class-based
\* pipeline, and of the standalone clean_shipments, holds no two rows of the
\* same id; the standalone clean_refunds does not deduplicate.
C2_DeduplicatingCleanersUnique ==
    \A e \in Entities :
        (HasRun(e) /\ ~(prog = "script" /\ e = "refunds")) => UniqueIds(Cleaned(e))

\* Deduplication has removed a row: more Order rows pass the filter than are
\* in the cleaned Order set.
C2_Witness ==
    /\ prog = "etl" /\ HasRun("orders")
    /\ Len(SelectSeq(raw["orders"], OrderOk)) > Len(Cleaned("orders"))

----------------------------------------------------------------------------
(* C3 *)

\* The row of the loaded frame a cleaned row carries the index label of.
RawRowOf(e, r) == raw[e][r.idx + 1]

\* C3 (as stated): every cleaned row is a row of the raw dataset, no raw row
\* is in the cleaned dataset more than once, and each reported invalid count
\* is the number of raw rows less the number of cleaned rows, never negative.
C3_CleanedRowsAreRawRows ==
    prog = "etl" =>
        /\ \A e \in Entities : HasRun(e) =>
              /\ \A k \in DOMAIN Cleaned(e) :
                    \E i \in DOMAIN raw[e] : raw[e][i] = Cleaned(e)[k]
              /\ \A k, m \in DOMAIN Cleaned(e) : Cleaned(e)[k].idx = Cleaned(e)[m].idx => k = m
        /\ response # None =>
              LET q == response[1].data_quality_metrics
              IN  /\ q.invalid_customers_records = Len(raw["customers"]) - Len(Cleaned("customers"))
                  /\ q.invalid_products_records = Len(raw["products"]) - Len(Cleaned("products"))
                  /\ q.invalid_orders_records = Len(raw["orders"]) - Len(Cleaned("orders"))
                  /\ q.invalid_shipments_records = Len(raw["shipments"]) - Len(Cleaned("shipments"))
                  /\ q.invalid_returns_records = Len(raw["refunds"]) - Len(Cleaned("refunds"))
                  /\ q.invalid_customers_records >= 0 /\ q.invalid_products_records >= 0
                  /\ q.invalid_orders_records >= 0 /\ q.invalid_shipments_records >= 0
                  /\ q.invalid_returns_records >= 0

\* C3 (amended): every cleaned row carries the index label of one raw row and
\* equals it in every field but a Product's name, which is the raw name with
\* the characters outside letters, digits and whitespace removed and then
\* trimmed; no raw row is in the cleaned dataset more than once; and each
\* reported invalid count (invalid_returns_records for refunds) is the number
\* of raw rows less the number of cleaned rows, never negative.
C3_CleanedRowsComeFromRawRows ==
    prog = "etl" =>
        /\ \A e \in Entities : HasRun(e) =>
              /\ \A k \in DOMAIN Cleaned(e) :
                    LET r == Cleaned(e)[k]
                    IN  /\ r.idx + 1 \in DOMAIN raw[e]
                        /\ RawRowOf(e, r).idx = r.idx
                        /\ \A col \in Cols(e) :
                              IF e = "products" /\ col = "name" /\ IsStr(RawRowOf(e, r).c[col])
                              THEN r.c[col] = Str(Strip(KeepChars(RawRowOf(e, r).c[col].s, Alnum \cup Whitespace)))
                              ELSE r.c[col] = RawRowOf(e, r).c[col]
              /\ \A k, m \in DOMAIN Cleaned(e) : Cleaned(e)[k].idx = Cleaned(e)[m].idx => k = m
        /\ response # None =>
              LET q == response[1].data_quality_metrics
              IN  /\ q.invalid_customers_records = Len(raw["customers"]) - Len(Cleaned("customers"))
                  /\ q.invalid_products_records = Len(raw["products"]) - Len(Cleaned("products"))
                  /\ q.invalid_orders_records = Len(raw["orders"]) - Len(Cleaned("orders"))
                  /\ q.invalid_shipments_records = Len(raw["shipments"]) - Len(Cleaned("shipments"))
                  /\ q.invalid_returns_records = Len(raw["refunds"]) - Len(Cleaned("refunds"))
                  /\ q.invalid_customers_records >= 0 /\ q.invalid_products_records >= 0
                  /\ q.invalid_orders_records >= 0 /\ q.invalid_shipments_records >= 0
                  /\ q.invalid_returns_records >= 0

\* A report is out for a run that dropped a Product and changed the name of
\* one it kept.
C3_Witness ==
    /\ prog = "etl" /\ response # None
    /\ response[1].data_quality_metrics.invalid_products_records > 0
    /\ \E k \in DOMAIN Cleaned("products") :
          Cleaned("products")[k].c["name"] # RawRowOf("products", Cleaned("products")[k]).c["name"]

----------------------------------------------------------------------------
(* C4 *)

\* Row i of the file of e is the first of the rows of its id that meet Ok:
\* deduplication leaves it.
FirstOfId(e, i, Ok(_)) ==
    /\ Ok(files[e][i])
    /\ ~\E j \in 1..(i - 1) : Ok(files[e][j]) /\ files[e][j].id = files[e][i].id

\* C4 (as stated, a row dropped as a duplicate set aside): clean_customers keeps
\* a Customer row iff its id is valid, its name is non-empty after trimming
\* and its email or its phone is well-formed; and of the customers Alice (valid
\* id, a@x.com, no phone) and Bob (id not-a-uuid) it returns Alice's row alone,
\* the report giving invalid_customers_records = 1.
C4_CustomersKeptIffValid ==
    Called(1) =>
        /\ HasRun("customers") =>
              \A i \in DOMAIN files["customers"] :
                  Kept("customers", i) <=> FirstOfId("customers", i, CustomerRowValid)
        /\ files["customers"] = <<Alice, Bob>> =>
              /\ HasRun("customers")
              /\ Len(Cleaned("customers")) = 1
              /\ Cleaned("customers")[1].idx = 0
              /\ Cleaned("customers")[1].c["name"] = Str(Alice.name)
              /\ response # None => response[1].data_quality_metrics.invalid_customers_records = 1

\* The run of the scenario of C4: clean_customers raises TypeError.
C4_ScenarioRaises ==
    /\ files["customers"] = <<Alice, Bob>>
    /\ prog = "etl" /\ pc = "aborted" /\ err = "TypeError" /\ ~HasRun("customers")

\* A Customer row without a name is in the cleaned set.
C4_NamelessKept ==
    \E i \in DOMAIN files["customers"] :
        files["customers"][i].name = <<>> /\ Kept("customers", i)

----------------------------------------------------------------------------
(* C5 *)

\* C5 (as stated): every cleaned Product has a valid id, a category of the
\* fixed list, price > 0, stock >= 0 and a name that is non-empty and holds
\* only letters, digits and spaces; a raw Product failing any of these is not
\* in the cleaned set.
C5_CleanedProductsWellFormed ==
    (prog = "etl" /\ HasRun("products")) =>
        /\ \A k \in DOMAIN Cleaned("products") :
              LET r == Cleaned("products")[k]
              IN  /\ is_valid_uuid(r.c["id"])
                  /\ IsIn(r.c["category"], Categories)
                  /\ Positive(r.c["price"])
                  /\ NonNegative(r.c["stock"])
                  /\ IsStr(r.c["name"])
                  /\ r.c["name"].s # <<>>
                  /\ AllIn(r.c["name"].s, Alnum \cup {" "})
        /\ \A i \in DOMAIN files["products"] :
              ~ProductRowValid(files["products"][i]) => ~Kept("products", i)

\* A cleaned Product whose name is the empty text.
C5_EmptyNameKept ==
    /\ prog = "etl" /\ HasRun("products")
    /\ \E k \in DOMAIN Cleaned("products") : Cleaned("products")[k].c["name"] = Str(<<>>)

----------------------------------------------------------------------------
(* C6 *)

\* The first part of the text that has the shape dddd-dd-dd is a day of the
\* calendar that a Timestamp can hold (1677-09-21 to 2262-04-11).
FirstDateValid(s) ==
    \E i \in 1..(Len(s) - 9) :
        LET d == SubSeq(s, i, i + 9)
            n == DigitsVal(SubSeq(d, 1, 4)) * 10000 + DigitsVal(SubSeq(d, 6, 7)) * 100
                     + DigitsVal(SubSeq(d, 9, 10))
        IN  /\ DateShape(d)
            /\ \A j \in 1..(i - 1) : ~DateShape(SubSeq(s, j, j + 9))
            /\ CalendarDate(d)
            /\ n >= 16770921 /\ n <= 22620411

\* An Order row that passes the filter of clean_orders.
OrderRowAccepted(x) ==
    /\ UuidParses(x.id) /\ UuidParses(x.customer_id) /\ UuidParses(x.product_id)
    /\ ParsesAtLeast(x.quantity, 0)
    /\ FirstDateValid(x.date)

----------------------------------------------------------------------------
(* C7 *)

\* Rows i < j of the Order file have one id and different quantities.
SameIdOtherQuantity(i, j) ==
    /\ i < j
    /\ files["orders"][i].id = files["orders"][j].id
    /\ files["orders"][i].quantity # files["orders"][j].quantity

\* C7 (as stated): of two Order rows of one id and different quantities the
\* first is in the cleaned Order set and the second is not.
C7_FirstOfTwoSurvives ==
    (prog = "etl" /\ HasRun("orders")) =>
        \A i, j \in DOMAIN files["orders"] :
            SameIdOtherQuantity(i, j) => Kept("orders", i) /\ ~Kept("orders", j)

\* C7 (amended): of two Order rows of one id and different quantities that
\* both pass the filter of clean_orders, the second is not in the cleaned Order
\* set, and the first is in it unless a still earlier row of that id passes
\* the filter.
C7_FirstOfTwoAcceptedSurvives ==
    (prog = "etl" /\ HasRun("orders")) =>
        \A i, j \in DOMAIN files["orders"] :
            (/\ SameIdOtherQuantity(i, j)
             /\ OrderRowAccepted(files["orders"][i])
             /\ OrderRowAccepted(files["orders"][j])) =>
                /\ ~Kept("orders", j)
                /\ Kept("orders", i) <=>
                       ~\E h \in 1..(i - 1) :
                           /\ OrderRowAccepted(files["orders"][h])
                           /\ files["orders"][h].id = files["orders"][i].id

\* Two Order rows of one id and different quantities pass the filter; the
\* cleaned Order set holds the first with its own quantity and not the second.
C7_Witness ==
    /\ prog = "etl" /\ HasRun("orders")
    /\ \E i, j \in DOMAIN files["orders"] :
          /\ SameIdOtherQuantity(i, j)
          /\ OrderRowAccepted(files["orders"][i])
          /\ OrderRowAccepted(files["orders"][j])
          /\ Kept("orders", i) /\ ~Kept("orders", j)
          /\ CleanedRow("orders", i).c["quantity"].n = 100 * DigitsVal(files["orders"][i].quantity)

----------------------------------------------------------------------------
(* C8 *)

\* C8 (as stated, a row dropped as a duplicate set aside): the enum-gated
\* clean_shipments keeps a Shipment row iff its id and order_id are valid, its
\* carrier is one of FedEx, UPS, DHL, USPS in any casing and its status is one
\* of Shipped, Delivered, Delayed, Unknown; every kept row has its carrier in
\* canonical casing and its status in the list.
C8_ShipmentsKeptIffValid ==
    (prog = "etl" /\ HasRun("shipments")) =>
        \A i \in DOMAIN files["shipments"] :
            /\ Kept("shipments", i) <=> FirstOfId("shipments", i, ShipmentRowValid)
            /\ Kept("shipments", i) =>
                  /\ IsIn(CleanedRow("shipments", i).c["carrier"], Carriers)
                  /\ IsIn(CleanedRow("shipments", i).c["status"], Statuses)

\* A Shipment row of carrier fedex, valid in its other fields and the only row
\* of its id, is not in the cleaned Shipment set.
C8_LowerCaseCarrierDropped ==
    /\ prog = "etl" /\ HasRun("shipments")
    /\ files["shipments"] = <<ShipLower>>
    /\ Cleaned("shipments") = <<>>

----------------------------------------------------------------------------
(* C9 *)

\* A Shipment row of status "  Delivered!! " whose other fields are valid and
\* whose id no earlier row has.
ShoutedDelivered(i) ==
    LET x == files["shipments"][i]
    IN  /\ x.status = ShipShout.status
        /\ UuidParses(x.id) /\ UuidParses(x.order_id)
        /\ x.carrier \in Carriers
        /\ ~\E j \in 1..(i - 1) : files["shipments"][j].id = x.id

\* C9 (as stated): a Shipment of status "  Delivered!! " with valid other
\* fields is kept with the status Delivered and is counted in
\* on_time_deliveries and total_shipments of the row of its carrier in
\* shipping_performance_by_carrier.
C9_ShoutedDeliveredCounted ==
    (prog = "etl" /\ HasRun("shipments")) =>
        \A i \in DOMAIN files["shipments"] :
            ShoutedDelivered(i) =>
                /\ Kept("shipments", i)
                /\ CleanedRow("shipments", i).c["status"] = Str(ShipLower.status)
                /\ response # None =>
                      \E k \in DOMAIN response[1].business_metrics.shipping_performance_by_carrier :
                          LET p == response[1].business_metrics.shipping_performance_by_carrier[k]
                          IN  /\ p.carrier = files["shipments"][i].carrier
                              /\ p.on_time_deliveries >= 1
                              /\ p.total_shipments >= 1

\* The report of a run over the one Shipment row of status "  Delivered!! "
\* has no row for its carrier.
C9_ShoutedDeliveredUncounted ==
    /\ prog = "etl" /\ response # None
    /\ files["shipments"] = <<ShipShout>>
    /\ response[1].business_metrics.shipping_performance_by_carrier = <<>>

----------------------------------------------------------------------------
(* C10 *)

\* A cleaned refund_amount is above zero: a number in the pipeline, text that
\* reads as a number in the script before line 100.
AmountPositive(v) ==
    IF IsStr(v) THEN IsDecimal(Strip(v.s)) /\ DecimalVal(Strip(v.s)) > 0 ELSE Positive(v)

\* C10 (as stated): every cleaned Refund has a reason that is non-empty after
\* trimming and a refund_amount above zero; a raw Refund whose reason is empty
\* or blank, or whose refund_amount, its trailing non-numeric characters and
\* its commas removed, is no number above zero, is not in the cleaned set.
C10_CleanedRefundsWellFormed ==
    HasRun("refunds") =>
        /\ \A k \in DOMAIN Cleaned("refunds") :
              LET r == Cleaned("refunds")[k]
              IN  /\ IsStr(r.c["reason"]) /\ Strip(r.c["reason"].s) # <<>>
                  /\ AmountPositive(r.c["refund_amount"])
        /\ \A i \in DOMAIN files["refunds"] :
              (\/ Strip(files["refunds"][i].reason) = <<>>
               \/ ~AmountRowValid(files["refunds"][i].refund_amount)) => ~Kept("refunds", i)

\* The pipeline keeps a Refund whose reason is blank.
C10_BlankReasonKept ==
    /\ prog = "etl" /\ HasRun("refunds")
    /\ \E k \in DOMAIN Cleaned("refunds") :
          IsStr(Cleaned("refunds")[k].c["reason"]) /\ Strip(Cleaned("refunds")[k].c["reason"].s) = <<>>

\* The script keeps a Refund whose reason is missing in the file.
C10_ScriptKeepsMissingReason ==
    /\ prog = "script" /\ HasRun("refunds")
    /\ \E i \in DOMAIN files["refunds"] : files["refunds"][i].reason = <<>> /\ Kept("refunds", i)

\* The script raises on a Refund whose amount is no number.
C10_ScriptRaisesOnText ==
    /\ prog = "script" /\ pc = "aborted" /\ err = "ValueError"
    /\ \E i \in DOMAIN files["refunds"] : files["refunds"][i].refund_amount = RefundText.refund_amount

----------------------------------------------------------------------------
(* C11 *)

\* The files the program of this run loads.
Needed == Reads(prog)

\* C11 (as stated): when the raw datasets load, no validator and no cleaner
\* raises on a malformed row: the run is not ended by an exception and every
\* cleaner that was called has returned a cleaned dataset.
C11_CleanersNeverRaise ==
    ~LoadFails(Needed, loadable) =>
        /\ pc # "aborted" /\ err = "none"
        /\ prog = "etl" => \A k \in DOMAIN EtlOrder : Called(k) => HasRun(EtlOrder[k])

\* clean_customers raised TypeError on files that all load: a cell of the
\* email or phone column is not text.
C11_CustomerCleanerRaises ==
    /\ prog = "etl" /\ loadable = Entities
    /\ pc = "aborted" /\ err = "TypeError" /\ ~HasRun("customers")
    /\ ApplyRaises(raw["customers"], "email") \/ ApplyRaises(raw["customers"], "phone")

----------------------------------------------------------------------------
(* C12 *)

\* Text in the canonical form of a UUID: 8-4-4-4-12 hexadecimal digits of
\* either case, hyphens between the groups.
Canonical(s) ==
    /\ Len(s) = 36
    /\ \A i \in 1..36 : IF i \in {9, 14, 19, 24} THEN s[i] = "-" ELSE s[i] \in HexChars

\* C12 (as stated): the identifier validator returns true iff the text of the
\* value is a UUID in canonical form; here on the id of every loaded row.
C12_ValidIffCanonical ==
    \A e \in Entities : \A i \in DOMAIN raw[e] :
        is_valid_uuid(raw[e][i].c["id"]) <=> Canonical(StrOf(raw[e][i].c["id"]))

\* A Customer whose id is 32 hexadecimal digits without hyphens is in the
\* cleaned Customer set.
C12_UnhyphenatedKept ==
    /\ prog = "etl" /\ HasRun("customers")
    /\ \E k \in DOMAIN Cleaned("customers") :
          /\ Len(Cleaned("customers")[k].c["id"].s) = 32
          /\ AllIn(Cleaned("customers")[k].c["id"].s, HexChars)

----------------------------------------------------------------------------
(* C13 *)

\* C13 (as stated; the order of the cleaners is that of clean_all_data, the
\* referential checks are those of the standalone clean_refunds): the
\* Shipment and Refund cleaners start after the Customer, Product and Order
\* cleaners have returned, and a referential check of the Refund cleaner
\* reads the cleaned Order and Product sets, not the raw ones.
C13_ReferencesReadCleaned ==
    /\ (/\ prog = "etl"
        /\ \/ pc \in {"clean_shipments", "clean_refunds"}
           \/ HasRun("shipments") \/ HasRun("refunds")) =>
            HasRun("customers") /\ HasRun("products") /\ HasRun("orders")
    /\ (prog = "script" /\ HasRun("refunds")) =>
            \A k \in DOMAIN Cleaned("refunds") :
                /\ Cleaned("refunds")[k].c["order_id"] \in IdsOf(clean_orders_valid(raw["orders"]))
                /\ Cleaned("refunds")[k].c["product_id"] \in IdsOf(clean_products_valid(raw["products"]))

\* The standalone clean_refunds has kept a Refund of an Order of the raw file
\* that fails the conditions of clean_orders.
C13_RefundOfInvalidOrderKept ==
    /\ prog = "script" /\ HasRun("refunds")
    /\ \E k \in DOMAIN Cleaned("refunds") :
          /\ IdIn(Cleaned("refunds")[k].c["order_id"], raw["orders"])
          /\ Cleaned("refunds")[k].c["order_id"] \notin IdsOf(clean_orders_valid(raw["orders"]))

----------------------------------------------------------------------------
(* C14 *)

\* C14: when a file of the pipeline does not load, the run aborts in
\* DataCleaner.__init__ with the exception of the load: no cleaner has run,
\* no cleaned dataset exists, no metrics are computed and no report is
\* written; and a report is written only by a run that cleaned all five
\* datasets, never by one that aborted.
C14_LoadFailureAborts ==
    prog = "etl" =>
        /\ loadable # Entities =>
              /\ pc \in {"start", "aborted"}
              /\ pc = "aborted" => err = "FileNotFoundError"
              /\ raw = [e \in Entities |-> <<>>]
              /\ \A e \in Entities : ~HasRun(e)
              /\ response = None /\ out_file = None
        /\ out_file # None =>
              /\ pc = "done" /\ err = "none"
              /\ \A e \in Entities : HasRun(e)
              /\ out_file = response
        /\ pc = "aborted" => out_file = None

\* The run of the pipeline over files of which one does not load has aborted.
C14_Witness ==
    /\ prog = "etl" /\ loadable # Entities
    /\ pc = "aborted" /\ err = "FileNotFoundError"

----------------------------------------------------------------------------
(* C17 *)

\* The shape of a report but for the names of the data-quality fields.
ReportShape(r, quality) ==
    /\ DOMAIN r = {"valid_names", "data_quality_metrics", "business_metrics"}
    /\ DOMAIN r.business_metrics =
          {"top_5_customers_by_total_spend", "top_5_products_by_revenue",
           "shipping_performance_by_carrier", "refund_reason_analysis"}
    /\ DOMAIN r.data_quality_metrics = quality
    /\ \A f \in quality : r.data_quality_metrics[f] \in Int
    /\ Len(r.valid_names) = Len(Cleaned("customers"))
    /\ \A i \in DOMAIN r.valid_names :
          /\ DOMAIN r.valid_names[i] = {"uuid", "name"}
          /\ r.valid_names[i].uuid = Cleaned("customers")[i].c["id"]
          /\ r.valid_names[i].name = Cleaned("customers")[i].c["name"]

\* C17 (as stated): the report has exactly the fields valid_names,
\* data_quality_metrics and business_metrics; business_metrics exactly the
\* four lists; data_quality_metrics one integer invalid_<entity>_records for
\* each of customers, products, orders, shipments and refunds; valid_names one
\* {uuid, name} pair per cleaned customer.
C17_ReportShapeByEntity ==
    (prog = "etl" /\ response # None) =>
        ReportShape(response[1],
                    {"invalid_customers_records", "invalid_products_records", "invalid_orders_records",
                     "invalid_shipments_records", "invalid_refunds_records"})

\* C17 (amended): the same, the data-quality field of the refunds being named
\* invalid_returns_records.
C17_ReportShapeWithReturns ==
    (prog = "etl" /\ response # None) =>
        ReportShape(response[1],
                    {"invalid_customers_records", "invalid_products_records", "invalid_orders_records",
                     "invalid_shipments_records", "invalid_returns_records"})

\* A report is written whose valid_names has fewer pairs than the Customer
\* file has rows.
C17_Witness ==
    /\ prog = "etl" /\ out_file # None
    /\ Len(out_file[1].valid_names) > 0
    /\ Len(out_file[1].valid_names) < Len(raw["customers"])

----------------------------------------------------------------------------
(* C19 *)

\* The cleaner that assigns the cleaned dataset of e is at pc.
OwnCleanerAt(e) == pc = "clean_" \o e

\* C19: in a run of the pipeline each cleaned dataset is assigned by a step of
\* its own cleaner, to a dataset that was not assigned before, and no later
\* step (another cleaner, the metrics, the write of the report) changes it.
C19_CleanedAssignedOnce ==
    [][prog = "etl" =>
          \A e \in Entities :
              /\ HasRun(e) => valid'[e] = valid[e]
              /\ valid'[e] # valid[e] => OwnCleanerAt(e)]_vars

\* The report is written after every cleaner returned a dataset with rows in
\* it, one of them a Customer without a name.
C19_Witness ==
    /\ prog = "etl" /\ pc = "done"
    /\ \A e \in Entities : HasRun(e)
    /\ \E k \in DOMAIN Cleaned("customers") : ~IsStr(Cleaned("customers")[k].c["name"])
    /\ Cleaned("orders") # <<>>

----------------------------------------------------------------------------
(* The top lists of a report. *)

\* A list of at most five entries whose metric never rises from one entry to
\* the next.
TopList(list, Metric(_)) ==
    /\ Len(list) <= 5
    /\ \A i \in 1..(Len(list) - 1) : Metric(list[i]) >= Metric(list[i + 1])

total_spent(r) == r.total_spent.n
total_revenue(r) == r.total_revenue.n
total_shipments(r) == r.total_shipments
total_refund_amount(r) == r.total_refund_amount.n

\* C15: each top list of a report (customers by total_spent and products by
\* total_revenue in the pipeline's report, carriers by total_shipments and
\* refund reasons by total_refund_amount in the alternate script's output) has
\* at most 5 entries and is non-increasing in its metric.
C15_TopListsBoundedAndSorted ==
    response # None =>
        IF prog = "etl"
        THEN /\ TopList(response[1].business_metrics.top_5_customers_by_total_spend, total_spent)
             /\ TopList(response[1].business_metrics.top_5_products_by_revenue, total_revenue)
        ELSE /\ TopList(response[1].shipping_performance_by_carrier, total_shipments)
             /\ TopList(response[1].refund_reason_analysis, total_refund_amount)

\* A pipeline report whose customers list holds five of six customers with
\* orders, the first of them with more than the last.
C15_Witness ==
    /\ prog = "etl" /\ response # None
    /\ Cardinality({valid["orders"][1][i].c["customer_id"] : i \in DOMAIN valid["orders"][1]}) > 5
    /\ Len(valid["customers"][1]) > 5
    /\ LET list == response[1].business_metrics.top_5_customers_by_total_spend
       IN  Len(list) = 5 /\ total_spent(list[1]) > total_spent(list[5])

\* The alternate script's output with five of six carriers and five of six
\* reasons, neither list of one metric value throughout.
C15_AlternateTruncated ==
    /\ prog = "alt" /\ response # None
    /\ Len(shipping_performance(valid["shipments"][1])) > 5
    /\ Len(refund_reason_analysis(raw["refunds"])) > 5
    /\ LET c == response[1].shipping_performance_by_carrier
           r == response[1].refund_reason_analysis
       IN  /\ Len(c) = 5 /\ total_shipments(c[1]) > total_shipments(c[5])
           /\ Len(r) = 5 /\ total_refund_amount(r[1]) > total_refund_amount(r[5])

----------------------------------------------------------------------------
(* The pipeline run twice. *)

----------------------------------------------------------------------------
(* The refund totals of the alternate script. *)

\* The reasons and totals of a refund_reason_analysis list, in its order.
ReasonTotals(list) == [i \in DOMAIN list |-> <<list[i].reason, list[i].total_refund_amount.n>>]

\* refunds.csv cleaned by clean_refunds of Class_data_clean.py and divided by
\* 100 (its lines 97 and 100).
RefundsCleanedAndDivided ==
    MapColumn(script_clean_refunds(read_csv(files["refunds"], Cols("refunds")),
                                   read_csv(files["orders"], Cols("orders")),
                                   read_csv(files["products"], Cols("products"))),
              "refund_amount", DivideCell)

RefundsCleanable ==
    script_clean_refunds_raises(read_csv(files["refunds"], Cols("refunds")),
                                read_csv(files["orders"], Cols("orders")),
                                read_csv(files["products"], Cols("products"))) = "none"

\* C18: the refund_reason_analysis of the alternate script lists, for the 5
\* reasons of largest total, the sum of the cleaned refund amounts of the
\* reason, each divided by 100 once after cleaning and before aggregation.
C18_TotalsOfCleanedDividedAmounts ==
    (prog = "alt" /\ response # None /\ RefundsCleanable) =>
        ReasonTotals(response[1].refund_reason_analysis) =
            ReasonTotals(top_5_refund_reason_analysis(RefundsCleanedAndDivided))

\* The alternate script lists a reason with the sum of the amounts of
\* refunds.csv as they are: one refund of 5 is a total of 5, not of 0.05.
C18_UndividedTotal ==
    /\ prog = "alt" /\ response # None /\ RefundsCleanable
    /\ Len(files["refunds"]) = 1
    /\ Len(RefundsCleanedAndDivided) = 1
    /\ RefundsCleanedAndDivided[1].c["refund_amount"].n = 5
    /\ Len(response[1].refund_reason_analysis) = 1
    /\ response[1].refund_reason_analysis[1].total_refund_amount.n = 500

----------------------------------------------------------------------------
(* The shipment flags of the alternate script. *)

\* df_shipments of the alternate script once its flag columns are set.
Flagged == IF prog = "alt" /\ valid["shipments"] # None THEN valid["shipments"][1] ELSE <<>>

Undelivered == {<<"s", "h", "i", "p", "p", "e", "d">>, <<"i", "n", "_", "t", "r", "a", "n", "s", "i", "t">>,
                <<"c", "a", "n", "c", "e", "l", "l", "e", "d">>}

\* C20: in the alternate script every shipment that survives the status
\* filter is flagged in exactly one of on_time, delayed and undelivered; a
\* shipment classified shipped, in_transit or cancelled is flagged
\* undelivered; and for every carrier row none of whose shipments lacks an id
\* the three counts add up to total_shipments.
C20_FlagsPartitionShipments ==
    /\ \A i \in DOMAIN Flagged :
          LET r == Flagged[i]
          IN  /\ r.c["on_time"].n + r.c["delayed"].n + r.c["undelivered"].n = 1
              /\ r.c["status_cleaned"].s \in valid_statuses
              /\ r.c["status_cleaned"].s \in Undelivered => r.c["undelivered"].n = 1
    /\ (prog = "alt" /\ response # None) =>
          \A j \in DOMAIN response[1].shipping_performance_by_carrier :
              LET row == response[1].shipping_performance_by_carrier[j]
              IN  (\A i \in DOMAIN Flagged :
                      Flagged[i].c["carrier"] = Str(row.carrier) => Flagged[i].c["id"].t # "nan")
                  => row.on_time_deliveries + row.delayed_shipments + row.undelivered_shipments
                         = row.total_shipments

\* The alternate script's output over shipments of every class: one on time,
\* one delivered without a delivery date, and shipped, in_transit and
\* cancelled ones, with a carrier of two shipments in the list.
C20_Witness ==
    /\ prog = "alt" /\ response # None
    /\ \E i \in DOMAIN Flagged : Flagged[i].c["on_time"].n = 1
    /\ \E i \in DOMAIN Flagged : Flagged[i].c["delayed"].n = 1
    /\ \A s \in Undelivered : \E i \in DOMAIN Flagged : Flagged[i].c["status_cleaned"].s = s
    /\ \E j \in DOMAIN response[1].shipping_performance_by_carrier :
          response[1].shipping_performance_by_carrier[j].total_shipments = 2
    /\ Len(Flagged) < Len(raw["shipments"])

----------------------------------------------------------------------------
(* The top lists against the cleaned sets. *)

\* The cleaned orders whose column key holds the id text.
OrdersOf(key, id) ==
    {k \in DOMAIN Cleaned("orders") : Cleaned("orders")[k].c[key] = Str(id)}

\* The row of the cleaned frame of e with the id text and the name text.
CleanedNamed(e, id, name) ==
    {j \in DOMAIN Cleaned(e) : Cleaned(e)[j].c["id"] = Str(id) /\ Cleaned(e)[j].c["name"] = Str(name)}

\* A cleaned order whose column key matches no row of the cleaned frame of e.
Unmatched(key, e) ==
    {k \in DOMAIN Cleaned("orders") : Cleaned("orders")[k].c[key] \notin IdsOf(Cleaned(e))}

\* C21: every entry of top_5_customers_by_total_spend is a customer of
\* valid_names (the cleaned customers) and its total_spent is the sum over
\* exactly the cleaned orders of that customer; every entry of
\* top_5_products_by_revenue is a cleaned product and its total_revenue is the
\* sum over exactly the cleaned orders of that product; so a cleaned order
\* that matches no cleaned customer (product) is in no total.
C21_TopEntriesFromCleanedSets ==
    (prog = "etl" /\ response # None) =>
        LET orders == Cleaned("orders")
            tc == response[1].business_metrics.top_5_customers_by_total_spend
            tp == response[1].business_metrics.top_5_products_by_revenue
        IN  /\ \A i \in DOMAIN tc :
                  /\ \E j \in DOMAIN response[1].valid_names :
                        /\ response[1].valid_names[j].uuid = Str(tc[i].customer_id)
                        /\ response[1].valid_names[j].name = Str(tc[i].name)
                  /\ CleanedNamed("customers", tc[i].customer_id, tc[i].name) # {}
                  /\ LET G == OrdersOf("customer_id", tc[i].customer_id)
                     IN  /\ G # {}
                         /\ tc[i].total_spent.n = SumN([k \in G |-> orders[k].c["quantity"].n], G)
            /\ \A i \in DOMAIN tp :
                  /\ Cardinality(CleanedNamed("products", tp[i].product_id, tp[i].name)) = 1
                  /\ LET G == OrdersOf("product_id", tp[i].product_id)
                         p == Cleaned("products")[CHOOSE j \in CleanedNamed("products", tp[i].product_id, tp[i].name) : TRUE]
                     IN  /\ G # {}
                         /\ tp[i].total_revenue.n =
                                SumN([k \in G |-> Revenue(orders[k].c["quantity"], p.c["price"]).n], G)

\* A report with customers and a product listed while cleaned orders of
\* positive quantity match no cleaned product.
C21_Witness ==
    /\ prog = "etl" /\ response # None
    /\ Len(response[1].business_metrics.top_5_customers_by_total_spend) >= 2
    /\ response[1].business_metrics.top_5_products_by_revenue # <<>>
    /\ \E k \in Unmatched("product_id", "products") : Cleaned("orders")[k].c["quantity"].n > 0

\* The same for the customers: a cleaned order of positive quantity matches
\* no cleaned customer.
C21_OrderOfNoCustomer ==
    /\ prog = "etl" /\ response # None
    /\ response[1].business_metrics.top_5_customers_by_total_spend # <<>>
    /\ \E k \in Unmatched("customer_id", "customers") : Cleaned("orders")[k].c["quantity"].n > 0

----------------------------------------------------------------------------
(* The cleaned frames of a DataCleaner in the hands of a client. *)

\* C22: each cleaned dataset of a DataCleaner is None from construction until
\* its own cleaner has run, a cleaner sets no cleaned dataset but its own, and
\* calculate_all_metrics returns a report only when all five cleaners have
\* completed: called earlier it raises and returns no report.
C22_ReportOnlyAfterAllCleaners ==
    /\ []((prog = "api" /\ response # None) => \A e \in Entities : valid[e] # None)
    /\ [][prog = "api" =>
            /\ pc = "start" /\ pc' = "constructed" => \A e \in Entities : valid'[e] = None
            /\ \A e \in Entities :
                  /\ (pc = "constructed" /\ valid'[e] # valid[e]) => call_cleaner(e) /\ valid[e] = None
                  /\ call_cleaner(e) => \A f \in Entities \ {e} : valid'[f] = valid[f]
            /\ (call_calculate_all_metrics /\ \E e \in Entities : valid[e] = None) =>
                  response' = None /\ pc' = "aborted" /\ err' # "none"]_vars

\* calculate_all_metrics has raised on a DataCleaner with some cleaners run
\* and others not, and there is no report.
C22_Witness ==
    /\ prog = "api" /\ pc = "aborted" /\ err = "TypeError" /\ response = None
    /\ valid["orders"] # None /\ valid["shipments"] # None /\ valid["shipments"][1] # <<>>
    /\ valid["customers"] = None /\ valid["refunds"] = None

\* A client's report, the cleaners called in an order of its own.
C22_ReportAfterAll ==
    /\ prog = "api" /\ pc = "done" /\ response # None
    /\ response[1].valid_names # <<>>

====
